---- MODULE Spec2Model ----
(***************************************************************************)
(* Purchase / entitlement lifecycle of the DesyncServer backend.           *)
(*                                                                         *)
(* Every HTTP request is a process that runs its handler from one storage  *)
(* operation (an await) to the next; the synchronous code that follows an  *)
(* await runs in the same step as the awaited operation.  Documents are    *)
(* mongoose documents: a handler works on a local copy, and save() of an   *)
(* existing document writes only the paths the handler has modified.  A    *)
(* new document gets its id in the pre('save') hook (highest id read, then *)
(* insert), and the unique index on id rejects an insert of a taken id.    *)
(***************************************************************************)
EXTENDS Integers, Sequences, FiniteSets, TLC

(***************************************************************************)
(* Bounds of the model                                                     *)
(***************************************************************************)
MaxInFlight == 2
MaxPurchases == 1
MaxNotifications == 2
MaxRedeemed == 1
RacePurchases == 2
RaceNotifications == 2
GateNotifications == 1
GateRedeemed == 6
MaxTime == 2
GateTime == 1
RedeemRuns == 2
MaxTransactions == 3
MaxUsers == 2
EditTime == 1

(***************************************************************************)
(* Null values: of a number, of a string, of a date; NaN of parseInt       *)
(***************************************************************************)
Null == 0 - 1
NaN == 0 - 2
NullS == "null"
NoTx == << >>

Slots == 1..MaxInFlight
Users == {1, 2}
Buyers == {1}

(***************************************************************************)
(* Catalogue (read-only reference data)                                    *)
(***************************************************************************)
Products ==
  [slug \in {"pro", "lite", "ghost", "old"} |->
     CASE slug = "pro" ->
            [id |-> 1, active |-> TRUE, roleId |-> 1, currency |-> "EUR", title |-> "Pro",
             durations |-> << [duration |-> "1day", days |-> 1, price |-> 10],
                              [duration |-> "lifetime", days |-> 0, price |-> 30] >>]
       [] slug = "lite" ->
            [id |-> 2, active |-> TRUE, roleId |-> Null, currency |-> "", title |-> "Lite",
             durations |-> << [duration |-> "1day", days |-> 1, price |-> 5] >>]
       [] slug = "ghost" ->
            [id |-> 3, active |-> TRUE, roleId |-> 1, currency |-> "USD", title |-> "Ghost",
             durations |-> << [duration |-> "1day", days |-> 1, price |-> 10] >>]
       [] OTHER ->
            [id |-> 4, active |-> FALSE, roleId |-> 1, currency |-> "USD", title |-> "Old",
             durations |-> << [duration |-> "1day", days |-> 1, price |-> 10] >>]]

Roles == {1, 2}

\* the products as a handler finds them at time t: at EditTime the price of a tier of "pro"
\* is raised and its role replaced, and the role of "ghost" is deleted from the role store
Catalogue(t) ==
  [slug \in DOMAIN Products |->
     IF t < EditTime THEN Products[slug]
     ELSE IF slug = "pro"
       THEN [Products[slug] EXCEPT !.roleId = 2, !.durations[1].price = 12]
     ELSE IF slug = "ghost"
       THEN [Products[slug] EXCEPT !.roleId = 7]
     ELSE Products[slug]]

Software ==
  [id \in {1, 2} |->
     IF id = 1 THEN [status |-> "Active", price |-> 20, currency |-> "USD"]
               ELSE [status |-> "Discontinued", price |-> 20, currency |-> "USD"]]

SlugInputs == {"pro", "lite", "ghost", "old", "nope", ""}
DurationInputs == {"1day", "lifetime", ""}
IdParams == {"1", "2", "abc"}
\* client_reference_id and metadata.purchaseId of sessions this server did not create
ForeignRefs == { << "", "" >>, << "", "9" >>, << "0", "" >>, << "abc", "9" >> }
ForeignPi == 9
ErrMessages == {NullS, "card_declined"}

DefaultMaxDownloads == 5

(***************************************************************************)
(* Conversions                                                             *)
(***************************************************************************)
Digits == << "1", "2", "3", "4", "5", "6", "7", "8", "9" >>

\* Number.prototype.toString of a positive id
IdToString(n) == Digits[n]

\* parseInt: the leading decimal digits of the string, NaN when there are none
ParseInt(s) ==
  IF \E n \in 1..9 : Digits[n] = s THEN CHOOSE n \in 1..9 : Digits[n] = s
  ELSE IF s = "1x" THEN 1
  ELSE IF s = "0" THEN 0
  ELSE NaN

\* JavaScript truthiness of a string / of a number
TruthyS(s) == s # "" /\ s # NullS
TruthyN(n) == n # 0 /\ n # NaN /\ n # Null

(***************************************************************************)
(* State                                                                   *)
(***************************************************************************)
VARIABLES
  stripe,         \* the Stripe client is configured
  purchases,      \* Purchase collection: id -> document
  userRoles,      \* UserRole collection: id -> document
  notifications,  \* Notification collection: id -> document
  sales,          \* Software.totalSales: software id -> number
  sessions,       \* provider side: checkout sessions created, session id -> session
  req,            \* requests in flight: slot -> handler state
  resp,           \* the response sent by the step just taken, if any
  cap,            \* how far the run goes: sizes at which no further request is taken
  hist,           \* history: purchase id -> what was done to the purchase
  now,            \* wall clock, in days
  wallets,        \* TokenWallet collection: userUid -> document
  roles,          \* Role collection: id -> document
  codes,          \* InvitationCode collection: code -> document
  users,          \* User collection: uid -> document
  accepted        \* history: code -> registrations answered 201 with the code

\* the collections of the token and registration routes
accounts == << wallets, roles, codes, users, accepted >>

vars == << stripe, purchases, userRoles, notifications, sales, sessions, req, resp,
           cap, hist, now, accounts >>

store == << purchases, userRoles, notifications, sales >>

PurchaseFields ==
  {"userId", "softwareId", "productSlug", "duration", "durationDays", "paymentMethod",
   "amount", "currency", "status", "transactionId", "stripePaymentId", "stripeSessionId",
   "completedAt", "downloadCount", "maxDownloads", "lastDownload", "expiresAt", "notes"}

\* new Purchase({...}): the schema defaults
NewPurchase(userId, softwareId, paymentMethod, amount, currency) ==
  [userId |-> userId, softwareId |-> softwareId, productSlug |-> NullS, duration |-> NullS,
   durationDays |-> Null, paymentMethod |-> paymentMethod, amount |-> amount,
   currency |-> currency, status |-> "Pending", transactionId |-> NoTx,
   stripePaymentId |-> Null, stripeSessionId |-> Null, completedAt |-> Null,
   downloadCount |-> 0, maxDownloads |-> DefaultMaxDownloads, lastDownload |-> Null,
   expiresAt |-> Null, notes |-> NullS]

NoDoc == NewPurchase(Null, Null, NullS, Null, NullS)

\* new TokenWallet({userUid}): the schema defaults
NewWallet ==
  [balance |-> 0, totalEarned |-> 0, totalSpent |-> 0, lastDailyReward |-> Null,
   currentStreak |-> 0, transactions |-> << >>]

NoWallet == [NewWallet EXCEPT !.balance = Null]

\* new InvitationCode({code, expiresAt, maxUses}): the schema defaults
NewInvite(maxUses, expiresAt) ==
  [maxUses |-> maxUses, currentUses |-> 0, used |-> FALSE, usedBy |-> Null, usedAt |-> Null,
   expiresAt |-> expiresAt]

NoInvite == NewInvite(0, Null)
NoEvent == [type |-> "none", sid |-> Null, ref |-> NullS, metaRef |-> NullS, pi |-> Null,
            err |-> NullS]

Idle ==
  [kind |-> "idle", pc |-> "idle", user |-> Null, pid |-> Null, doc |-> NoDoc, dirty |-> {},
   lastId |-> Null, sig |-> NullS, ev |-> NoEvent, sid |-> Null, roleId |-> Null,
   assignedAt |-> Null, expiresAt |-> Null, totalSales |-> Null,
   wallet |-> NoWallet, pushed |-> << >>, isNew |-> FALSE, item |-> NullS, paid |-> 0,
   name |-> NullS, code |-> NullS, invite |-> NoInvite]

NoResp == [kind |-> "none", code |-> 0, msg |-> "", user |-> Null, pid |-> Null,
           sid |-> Null, stale |-> FALSE, sig |-> NullS, ev |-> NoEvent, threw |-> FALSE,
           slug |-> NullS, duration |-> NullS]

NoHist == [handled |-> 0, acked |-> 0, rejected |-> 0, granted |-> 0, redeemed |-> 0]

\* highest id of a collection, as findOne({}, {}, {sort: {id: -1}}) returns it (0: none)
LastId(coll) ==
  IF DOMAIN coll = {} THEN 0 ELSE CHOOSE i \in DOMAIN coll : \A j \in DOMAIN coll : j <= i

\* the collection with one more document
Insert(coll, id, d) == [i \in DOMAIN coll \cup {id} |-> IF i = id THEN d ELSE coll[i]]

\* document.set(path, value): a path is marked modified only when its value changes
Assign(r, f, v) ==
  IF r.doc[f] = v THEN r
  ELSE [r EXCEPT !.doc = [r.doc EXCEPT ![f] = v], !.dirty = r.dirty \cup {f}]

\* an assignment of a fresh timestamp that leaves the path unmodified
Stamp_unmarked(r, f, v) == [r EXCEPT !.doc = [r.doc EXCEPT ![f] = v]]

\* document.set(path, value) of a timestamp taken by this request: the clock of the model
\* is coarser than the millisecond stamps of the code, where the stamps of two handlings
\* differ, so a non-null stamp always modifies the path
Stamp(r, f, v) ==
  IF v = Null THEN Assign(r, f, v)
  ELSE [r EXCEPT !.doc = [r.doc EXCEPT ![f] = v], !.dirty = r.dirty \cup {f}]

\* document.save() of an existing document as a whole-document overwrite
SaveDoc_overwrite(stored, doc, dirty) == doc

\* document.save() of an existing document: $set of the modified paths only
SaveDoc(stored, doc, dirty) ==
  [f \in DOMAIN stored |-> IF f \in dirty THEN doc[f] ELSE stored[f]]

\* res.status(code).json(...): the request is over
Respond(r, kind, code, msg) ==
  /\ req' = [req EXCEPT ![r] = Idle]
  /\ resp' = [NoResp EXCEPT !.kind = kind, !.code = code, !.msg = msg,
                            !.user = req[r].user, !.pid = req[r].pid,
                            !.sig = req[r].sig, !.ev = req[r].ev]

\* a new request takes the lowest free slot
Free(r) ==
  /\ r <= cap.slots
  /\ req[r].kind = "idle"
  /\ \A q \in 1..(r - 1) : req[q].kind # "idle"
At(r, kind, pc) == req[r].kind = kind /\ req[r].pc = pc

InFlight(kind) == Cardinality({q \in Slots : req[q].kind = kind})

\* requests in flight that have yet to insert their purchase
Creating ==
  Cardinality({q \in Slots : req[q].kind \in {"checkout", "purchase"} /\ req[q].pid = Null})

\* the roles the products refer to
BaseRoles == [id \in Roles |-> [slug |-> IF id = 1 THEN "pro" ELSE "vip"]]

\* no wallet, invitation code or user yet
NoAccounts ==
  /\ wallets = << >>
  /\ roles = BaseRoles
  /\ codes = << >>
  /\ users = << >>
  /\ accepted = << >>

\* the state after construction: empty collections, no request in flight
Start(c) ==
  /\ stripe \in BOOLEAN
  /\ purchases = << >>
  /\ userRoles = << >>
  /\ notifications = << >>
  /\ sales = [id \in DOMAIN Software |-> 0]
  /\ sessions = << >>
  /\ req = [r \in Slots |-> Idle]
  /\ resp = NoResp
  /\ cap = c
  /\ hist = << >>
  /\ now = 0
  /\ NoAccounts

Init ==
  Start([slots |-> MaxInFlight, time |-> MaxTime, purchases |-> MaxPurchases,
         notifications |-> MaxNotifications, redeemed |-> MaxRedeemed])

Tick ==
  /\ now < cap.time
  /\ now' = now + 1
  /\ resp' = NoResp
  /\ UNCHANGED << stripe, purchases, userRoles, notifications, sales, sessions, req, hist, cap, accounts >>

(***************************************************************************)
(* POST /api/stripe/create-checkout-session                                *)
(***************************************************************************)
\* Product.findOne({slug, active: true})
FindActiveProduct(slug) == slug \in DOMAIN Products /\ Products[slug].active

\* Product.findOne({slug})
FindProduct(slug) == slug \in DOMAIN Products

\* the tier lookup that falls back to the first tier of the product
FindDuration_fallback(product, duration) ==
  IF \E i \in 1..Len(product.durations) : product.durations[i].duration = duration
  THEN CHOOSE i \in 1..Len(product.durations) :
         /\ product.durations[i].duration = duration
         /\ \A j \in 1..(i - 1) : product.durations[j].duration # duration
  ELSE 1

\* product.durations.find(d => d.duration === duration): index of the first match, 0 if none
FindDuration(product, duration) ==
  IF \E i \in 1..Len(product.durations) : product.durations[i].duration = duration
  THEN CHOOSE i \in 1..Len(product.durations) :
         /\ product.durations[i].duration = duration
         /\ \A j \in 1..(i - 1) : product.durations[j].duration # duration
  ELSE 0

\* the product's currency without the fallback
CurrencyOf_nofallback(product) == product.currency

\* product.currency || 'USD'
CurrencyOf(product) == IF TruthyS(product.currency) THEN product.currency ELSE "USD"

\* res.status(code).json(...) of a checkout request refused before it awaits
Refused(r, slug, duration, code, msg) ==
  /\ req' = [req EXCEPT ![r] = Idle]
  /\ resp' = [NoResp EXCEPT !.kind = "checkout", !.code = code, !.msg = msg,
                            !.slug = slug, !.duration = duration]

\* the Pending purchase the checkout request builds
CheckoutPurchase(user, slug, duration) ==
  LET product == Catalogue(now)[slug]
      d == product.durations[FindDuration(product, duration)]
  IN  [NewPurchase(user, product.id, "Card", d.price, CurrencyOf(product))
         EXCEPT !.productSlug = slug, !.duration = duration, !.durationDays = d.days]

CreateCheckoutSession(r) ==
  /\ Free(r)
  /\ Cardinality(DOMAIN purchases) + Creating < cap.purchases
  /\ \E user \in Buyers, slug \in SlugInputs, duration \in DurationInputs :
       IF ~stripe
         THEN Refused(r, slug, duration, 503, "Payment system not configured")
       ELSE IF ~TruthyS(slug) \/ ~TruthyS(duration)
         THEN Refused(r, slug, duration, 400, "Product slug and duration are required")
       ELSE IF ~FindActiveProduct(slug)
         THEN Refused(r, slug, duration, 404, "Product not found")
       ELSE IF FindDuration(Catalogue(now)[slug], duration) = 0
         THEN Refused(r, slug, duration, 400, "Invalid duration")
       ELSE /\ req' = [req EXCEPT ![r] =
                         [Idle EXCEPT !.kind = "checkout", !.pc = "insert", !.user = user,
                                      !.doc = CheckoutPurchase(user, slug, duration),
                                      !.lastId = LastId(purchases)]]
            /\ resp' = NoResp
  /\ UNCHANGED << stripe, purchases, userRoles, notifications, sales, sessions, hist, now, cap, accounts >>

\* the insert into a collection without the unique index on id
CheckoutInsert_noindex(r) ==
  /\ At(r, "checkout", "insert")
  /\ LET id == req[r].lastId + 1 IN
       /\ purchases' = Insert(purchases, id, req[r].doc)
       /\ hist' = Insert(hist, id, NoHist)
       /\ req' = [req EXCEPT ![r].pid = id, ![r].pc = "stripe"]
       /\ resp' = NoResp
  /\ UNCHANGED << stripe, userRoles, notifications, sales, sessions, now, cap, accounts >>

\* purchase.save() of the new document: insert under the unique index on id
CheckoutInsert(r) ==
  /\ At(r, "checkout", "insert")
  /\ LET id == req[r].lastId + 1 IN
       IF id \in DOMAIN purchases
         THEN /\ Respond(r, "checkout", 500, "Server error while creating checkout session")
              /\ UNCHANGED << purchases, hist >>
         ELSE /\ purchases' = Insert(purchases, id, req[r].doc)
              /\ hist' = Insert(hist, id, NoHist)
              /\ req' = [req EXCEPT ![r].pid = id, ![r].pc = "stripe"]
              /\ resp' = NoResp
  /\ UNCHANGED << stripe, userRoles, notifications, sales, sessions, now, cap, accounts >>

\* stripe.checkout.sessions.create: the provider opens a session or refuses
CheckoutStripeCreate(r) ==
  /\ At(r, "checkout", "stripe")
  /\ \/ /\ Respond(r, "checkout", 500, "Server error while creating checkout session")
        /\ UNCHANGED sessions
     \/ LET sid == LastId(sessions) + 1
            ref == IdToString(req[r].pid)
        IN  /\ sessions' = Insert(sessions, sid, [ref |-> ref, metaRef |-> ref, pi |-> sid])
            /\ req' = [req EXCEPT ![r] =
                         [Assign(req[r], "stripeSessionId", sid)
                            EXCEPT !.sid = sid, !.pc = "save_session"]]
            /\ resp' = NoResp
  /\ UNCHANGED << stripe, purchases, userRoles, notifications, sales, hist, now, cap, accounts >>

\* the response with the session id without the save of the purchase
CheckoutSaveSession_unsaved(r) ==
  /\ At(r, "checkout", "save_session")
  /\ purchases' = purchases
  /\ req' = [req EXCEPT ![r] = Idle]
  /\ resp' = [NoResp EXCEPT !.kind = "checkout", !.code = 200, !.msg = "success",
                            !.pid = req[r].pid, !.sid = req[r].sid,
                            !.stale = purchases[req[r].pid].status # req[r].doc.status]
  /\ UNCHANGED << stripe, userRoles, notifications, sales, sessions, hist, now, cap, accounts >>

\* purchase.save() with the session id, then the response
CheckoutSaveSession(r) ==
  /\ At(r, "checkout", "save_session")
  /\ purchases' = [purchases EXCEPT ![req[r].pid] = SaveDoc(@, req[r].doc, req[r].dirty)]
  /\ req' = [req EXCEPT ![r] = Idle]
  /\ resp' = [NoResp EXCEPT !.kind = "checkout", !.code = 200, !.msg = "success",
                            !.pid = req[r].pid, !.sid = req[r].sid,
                            !.stale = purchases[req[r].pid].status # req[r].doc.status]
  /\ UNCHANGED << stripe, userRoles, notifications, sales, sessions, hist, now, cap, accounts >>

(***************************************************************************)
(* POST /api/stripe/webhook                                                *)
(***************************************************************************)
Signatures == {"valid", "forged"}

\* stripe.webhooks.constructEvent: succeeds for a payload signed with the shared secret
VerifySignature_skipped(sig) == TRUE

VerifySignature(sig) == sig = "valid"

\* the events the provider can sign
Events ==
  { [type |-> "completed", sid |-> s, ref |-> sessions[s].ref,
     metaRef |-> sessions[s].metaRef, pi |-> sessions[s].pi, err |-> NullS] :
       s \in DOMAIN sessions }
  \cup
  { [type |-> "completed", sid |-> 0, ref |-> f[1], metaRef |-> f[2], pi |-> ForeignPi,
     err |-> NullS] : f \in ForeignRefs }
  \cup
  { [type |-> "failed", sid |-> Null, ref |-> NullS, metaRef |-> NullS, pi |-> p,
     err |-> e] : p \in {sessions[s].pi : s \in DOMAIN sessions}, e \in ErrMessages }
  \cup
  { [type |-> "failed", sid |-> Null, ref |-> NullS, metaRef |-> NullS, pi |-> ForeignPi,
     err |-> NullS] }
  \cup
  { [NoEvent EXCEPT !.type = "other"] }

\* parseInt(session.client_reference_id || session.metadata.purchaseId)
PurchaseIdOf(ev) == ParseInt(IF TruthyS(ev.ref) THEN ev.ref ELSE ev.metaRef)

\* what handleCheckoutSessionCompleted does with a purchase id whose null check is missing
LookupOutcome_unchecked(purchaseId, coll) ==
  IF ~TruthyN(purchaseId) THEN "return"
  ELSE IF purchaseId \notin DOMAIN coll THEN "throw"
  ELSE "found"

\* handleCheckoutSessionCompleted up to the purchase lookup
LookupOutcome(purchaseId, coll) ==
  IF ~TruthyN(purchaseId) THEN "return"
  ELSE IF purchaseId \notin DOMAIN coll THEN "return"
  ELSE "found"

\* purchase.status = 'Completed'; completedAt; stripePaymentId; transactionId
MarkCompleted(rq, ev, t) ==
  Assign(Assign(Assign(Assign(rq, "status", "Completed"), "completedAt", t),
                "stripePaymentId", ev.pi),
         "transactionId", << "cs", ev.sid >>)

\* the failure marking that also zeroes the amount
MarkFailed_zeroed(rq, ev) ==
  Assign(Assign(Assign(rq, "status", "Failed"),
                "notes", IF TruthyS(ev.err) THEN ev.err ELSE "Payment failed"),
         "amount", 0)

\* purchase.status = 'Failed'; notes = last_payment_error?.message || 'Payment failed'
MarkFailed(rq, ev) ==
  Assign(Assign(rq, "status", "Failed"),
         "notes", IF TruthyS(ev.err) THEN ev.err ELSE "Payment failed")

\* the lookup of the purchase through the payment intent of its checkout session
FindByPaymentId_session(pi) ==
  {p \in DOMAIN purchases :
     /\ purchases[p].stripeSessionId \in DOMAIN sessions
     /\ sessions[purchases[p].stripeSessionId].pi = pi}

\* Purchase.findOne({stripePaymentId})
FindByPaymentId(pi) == {p \in DOMAIN purchases : purchases[p].stripePaymentId = pi}

Bump(p, f) == hist' = [hist EXCEPT ![p][f] = @ + 1]

RECURSIVE RejectedUpTo(_)
RejectedUpTo(n) == IF n = 0 THEN 0 ELSE hist[n].rejected + RejectedUpTo(n - 1)

\* notifications the store has rejected
Rejected == RejectedUpTo(Len(hist))

\* the webhook route's answer to an event handled without an await
Answer(r, sig, ev, code, msg, threw) ==
  /\ req' = [req EXCEPT ![r] = Idle]
  /\ resp' = [NoResp EXCEPT !.kind = "webhook", !.code = code, !.msg = msg, !.sig = sig,
                            !.ev = ev, !.threw = threw]
  /\ UNCHANGED hist

\* what the webhook route answers when the handler throws
HandlerFailed_acknowledged == [code |-> 200, msg |-> "received"]

\* the catch block of the webhook route
HandlerFailed == [code |-> 500, msg |-> "Webhook handler failed"]

\* the handler threw: the catch block answers
Throw(r) ==
  /\ req' = [req EXCEPT ![r] = Idle]
  /\ resp' = [NoResp EXCEPT !.kind = "webhook", !.code = HandlerFailed.code,
                            !.msg = HandlerFailed.msg, !.pid = req[r].pid,
                            !.sig = req[r].sig, !.ev = req[r].ev, !.threw = TRUE]

\* handleCheckoutSessionCompleted up to the save of the completion
HandleCheckoutSessionCompleted(r, sig, ev) ==
  LET id == PurchaseIdOf(ev)
      out == LookupOutcome(id, purchases)
  IN  IF out = "return"
        THEN Answer(r, sig, ev, 200, "received", FALSE)
      ELSE IF out = "throw"
        THEN Answer(r, sig, ev, HandlerFailed.code, HandlerFailed.msg, TRUE)
      ELSE /\ req' = [req EXCEPT ![r] =
                        [MarkCompleted([Idle EXCEPT !.doc = purchases[id]], ev, now)
                           EXCEPT !.kind = "webhook", !.pc = "save_completed", !.pid = id,
                                  !.sig = sig, !.ev = ev, !.user = purchases[id].userId]]
           /\ Bump(id, "handled")
           /\ resp' = NoResp

\* handlePaymentFailed up to the save of the failure
HandlePaymentFailed(r, sig, ev) ==
  IF FindByPaymentId(ev.pi) = {}
    THEN Answer(r, sig, ev, 200, "received", FALSE)
    ELSE \E id \in FindByPaymentId(ev.pi) :
           /\ req' = [req EXCEPT ![r] =
                        [MarkFailed([Idle EXCEPT !.doc = purchases[id]], ev)
                           EXCEPT !.kind = "webhook", !.pc = "save_failed", !.pid = id,
                                  !.sig = sig, !.ev = ev, !.user = purchases[id].userId]]
           /\ resp' = NoResp
           /\ UNCHANGED hist

Webhook(r) ==
  /\ Free(r)
  /\ Cardinality(DOMAIN notifications) + Rejected + InFlight("webhook") < cap.notifications
  /\ \/ /\ ~stripe
        /\ Answer(r, NullS, NoEvent, 503, "Payment system not configured", FALSE)
     \/ /\ stripe
        /\ \E sig \in Signatures :
             /\ ~VerifySignature(sig)
             /\ Answer(r, sig, NoEvent, 400, "Webhook Error", FALSE)
     \/ /\ stripe
        /\ \E sig \in Signatures, ev \in Events :
             /\ VerifySignature(sig)
             /\ IF ev.type = "completed" THEN HandleCheckoutSessionCompleted(r, sig, ev)
                ELSE IF ev.type = "failed" THEN HandlePaymentFailed(r, sig, ev)
                ELSE Answer(r, sig, ev, 200, "received", FALSE)
  /\ UNCHANGED << stripe, purchases, userRoles, notifications, sales, sessions, now, cap, accounts >>

\* the expiry computed without the test of durationDays
ExpiryOf_untested(doc, t) == IF doc.durationDays = Null THEN Null ELSE t + doc.durationDays

\* the expiry the completion handler computes: now + durationDays, or none
ExpiryOf(doc, t) ==
  IF TruthyN(doc.durationDays) /\ doc.durationDays > 0 THEN t + doc.durationDays ELSE Null

\* the role the completion handler grants: product && product.roleId, then Role.findOne
RoleToGrant(doc) ==
  IF FindProduct(doc.productSlug) /\ TruthyN(Catalogue(now)[doc.productSlug].roleId)
     /\ Catalogue(now)[doc.productSlug].roleId \in Roles
  THEN Catalogue(now)[doc.productSlug].roleId
  ELSE Null

\* the completion's save with the expiry assigned to the purchase outside the role test:
\* a purchase whose product has no role gets expiresAt = null
CompletedSave_clears(r) ==
  /\ At(r, "webhook", "save_completed")
  /\ purchases' = [purchases EXCEPT ![req[r].pid] = SaveDoc(@, req[r].doc, req[r].dirty)]
  /\ LET role == RoleToGrant(req[r].doc) IN
       req' = [req EXCEPT ![r] =
                 IF role = Null
                   THEN [Assign([req[r] EXCEPT !.dirty = {}], "expiresAt", Null)
                           EXCEPT !.pc = "save_expiry"]
                   ELSE [req[r] EXCEPT !.dirty = {}, !.roleId = role,
                                       !.assignedAt = now,
                                       !.expiresAt = ExpiryOf(req[r].doc, now),
                                       !.pc = "role_lastid"]]
  /\ resp' = NoResp
  /\ UNCHANGED << stripe, userRoles, notifications, sales, sessions, hist, now, cap, accounts >>

\* the completion whose first save is left to the save of the expiry
CompletedSave_deferred(r) ==
  /\ At(r, "webhook", "save_completed")
  /\ purchases' = purchases
  /\ LET role == RoleToGrant(req[r].doc) IN
       req' = [req EXCEPT ![r].roleId = role,
                          ![r].assignedAt = IF role = Null THEN Null ELSE now,
                          ![r].expiresAt = IF role = Null THEN Null
                                           ELSE ExpiryOf(req[r].doc, now),
                          ![r].pc = IF role = Null THEN "notify_lastid" ELSE "role_lastid"]
  /\ resp' = NoResp
  /\ UNCHANGED << stripe, userRoles, notifications, sales, sessions, hist, now, cap, accounts >>

\* purchase.save() of the completion, then the product and role lookups
CompletedSave(r) ==
  /\ At(r, "webhook", "save_completed")
  /\ purchases' = [purchases EXCEPT ![req[r].pid] = SaveDoc(@, req[r].doc, req[r].dirty)]
  /\ LET role == RoleToGrant(req[r].doc) IN
       req' = [req EXCEPT ![r].dirty = {},
                          ![r].roleId = role,
                          ![r].assignedAt = IF role = Null THEN Null ELSE now,
                          ![r].expiresAt = IF role = Null THEN Null
                                           ELSE ExpiryOf(req[r].doc, now),
                          ![r].pc = IF role = Null THEN "notify_lastid" ELSE "role_lastid"]
  /\ resp' = NoResp
  /\ UNCHANGED << stripe, userRoles, notifications, sales, sessions, hist, now, cap, accounts >>

\* userRole.save(): the pre-save hook reads the highest id
CompletedRoleLastId(r) ==
  /\ At(r, "webhook", "role_lastid")
  /\ req' = [req EXCEPT ![r].lastId = LastId(userRoles), ![r].pc = "role_insert"]
  /\ resp' = NoResp
  /\ UNCHANGED << stripe, purchases, userRoles, notifications, sales, sessions, hist, now, cap, accounts >>

\* userRole.save(): the insert; then purchase.expiresAt = expiresAt
CompletedRoleInsert(r) ==
  /\ At(r, "webhook", "role_insert")
  /\ LET id == req[r].lastId + 1 IN
       IF id \in DOMAIN userRoles
         THEN /\ Throw(r)
              /\ UNCHANGED << userRoles, hist >>
         ELSE /\ userRoles' = Insert(userRoles, id,
                                     [userUid |-> req[r].doc.userId, roleId |-> req[r].roleId,
                                      assignedAt |-> req[r].assignedAt,
                                      assignedBy |-> req[r].doc.userId,
                                      expiresAt |-> req[r].expiresAt])
              /\ Bump(req[r].pid, "granted")
              /\ req' = [req EXCEPT ![r] =
                           [Stamp(req[r], "expiresAt", req[r].expiresAt)
                              EXCEPT !.pc = "save_expiry"]]
              /\ resp' = NoResp
  /\ UNCHANGED << stripe, purchases, notifications, sales, sessions, now, cap, accounts >>

\* purchase.save() of the expiry
CompletedSaveExpiry(r) ==
  /\ At(r, "webhook", "save_expiry")
  /\ purchases' = [purchases EXCEPT ![req[r].pid] = SaveDoc(@, req[r].doc, req[r].dirty)]
  /\ req' = [req EXCEPT ![r].dirty = {}, ![r].pc = "notify_lastid"]
  /\ resp' = NoResp
  /\ UNCHANGED << stripe, userRoles, notifications, sales, sessions, hist, now, cap, accounts >>

\* purchase.save() of the failure
FailedSave(r) ==
  /\ At(r, "webhook", "save_failed")
  /\ purchases' = [purchases EXCEPT ![req[r].pid] = SaveDoc(@, req[r].doc, req[r].dirty)]
  /\ req' = [req EXCEPT ![r].dirty = {}, ![r].pc = "notify_lastid"]
  /\ resp' = NoResp
  /\ UNCHANGED << stripe, userRoles, notifications, sales, sessions, hist, now, cap, accounts >>

\* Notification.createNotification: the pre-save hook reads the highest id
NotifyLastId(r) ==
  /\ At(r, "webhook", "notify_lastid")
  /\ req' = [req EXCEPT ![r].lastId = LastId(notifications), ![r].pc = "notify_insert"]
  /\ resp' = NoResp
  /\ UNCHANGED << stripe, purchases, userRoles, notifications, sales, sessions, hist, now, cap, accounts >>

\* what the notification store does with an insert
SaveOutcomes == {"stored", "rejected"}

\* Notification.createNotification: the insert; then res.json({received: true})
NotifyInsert(r) ==
  /\ At(r, "webhook", "notify_insert")
  /\ \E outcome \in SaveOutcomes :
       LET id == req[r].lastId + 1 IN
       IF outcome = "rejected"
         THEN /\ Throw(r)
              /\ Bump(req[r].pid, "rejected")
              /\ UNCHANGED notifications
       ELSE IF id \in DOMAIN notifications
         THEN /\ Throw(r)
              /\ UNCHANGED << notifications, hist >>
         ELSE /\ notifications' = Insert(notifications, id,
                                         [userUid |-> req[r].doc.userId,
                                          title |-> IF req[r].ev.type = "completed"
                                                    THEN "Purchase Complete!"
                                                    ELSE "Payment Failed",
                                          relatedId |-> req[r].pid])
              /\ Respond(r, "webhook", 200, "received")
              /\ IF req[r].ev.type = "completed"
                   THEN Bump(req[r].pid, "acked")
                   ELSE UNCHANGED hist
  /\ UNCHANGED << stripe, purchases, userRoles, sales, sessions, now, cap, accounts >>

(***************************************************************************)
(* Purchase methods                                                        *)
(***************************************************************************)
\* the counter test with an off-by-one comparison
LimitReached_offbyone(doc) == doc.downloadCount > doc.maxDownloads

\* this.downloadCount >= this.maxDownloads (recordDownload and canDownload)
LimitReached(doc) == doc.downloadCount >= doc.maxDownloads

\* the expiry test with the expiry instant itself counted as expired
Expired_inclusive(doc, t) == doc.expiresAt # Null /\ t >= doc.expiresAt

\* this.expiresAt && new Date() > new Date(this.expiresAt)
Expired(doc, t) == doc.expiresAt # Null /\ t > doc.expiresAt

\* canDownload without its counter test
CanDownload_nocounter(doc, t) ==
  IF doc.status # "Completed" THEN FALSE
  ELSE IF Expired(doc, t) THEN FALSE
  ELSE TRUE

\* purchaseSchema.methods.canDownload
CanDownload(doc, t) ==
  IF doc.status # "Completed" THEN FALSE
  ELSE IF LimitReached(doc) THEN FALSE
  ELSE IF Expired(doc, t) THEN FALSE
  ELSE TRUE

\* the message of a refused download with the counter looked at before the status
RefusalMessage_counterfirst(doc, t) ==
  IF LimitReached(doc) THEN "Download limit exceeded"
  ELSE IF doc.status # "Completed" THEN "Purchase not completed"
  ELSE IF Expired(doc, t) THEN "Purchase has expired"
  ELSE "Download not available"

\* the message of a refused download
RefusalMessage(doc, t) ==
  IF doc.status # "Completed" THEN "Purchase not completed"
  ELSE IF LimitReached(doc) THEN "Download limit exceeded"
  ELSE IF Expired(doc, t) THEN "Purchase has expired"
  ELSE "Download not available"

\* purchaseSchema.methods.completePurchase, up to the save
CompletePurchase(rq, transactionId, t) ==
  Assign(Assign(Assign(rq, "status", "Completed"), "completedAt", t),
         "transactionId", transactionId)

(***************************************************************************)
(* POST /api/purchases/:id/download                                        *)
(***************************************************************************)
\* the download route's answer to a request refused before its save
Refuse(r, user, id, code, msg) ==
  /\ req' = [req EXCEPT ![r] = Idle]
  /\ resp' = [NoResp EXCEPT !.kind = "download", !.code = code, !.msg = msg, !.user = user,
                            !.pid = id]

Download(r) ==
  /\ Free(r)
  /\ \E user \in Users, param \in IdParams :
       LET id == ParseInt(param) IN
       IF id = NaN
         THEN Refuse(r, user, Null, 400, "Invalid purchase ID")
       ELSE IF id \notin DOMAIN purchases
         THEN Refuse(r, user, Null, 404, "Purchase not found")
       ELSE IF user # purchases[id].userId
         THEN Refuse(r, user, id, 403, "You can only download your own purchases")
       ELSE IF ~CanDownload(purchases[id], now)
         THEN Refuse(r, user, id, 400, RefusalMessage(purchases[id], now))
       ELSE IF LimitReached(purchases[id])
         THEN Refuse(r, user, id, 500, "Server error while recording download")
       ELSE /\ hist[id].redeemed + InFlight("download") < cap.redeemed
            /\ req' = [req EXCEPT ![r] =
                         [Assign(Assign([Idle EXCEPT !.doc = purchases[id]],
                                        "downloadCount", purchases[id].downloadCount + 1),
                                 "lastDownload", now)
                            EXCEPT !.kind = "download", !.pc = "save_download",
                                   !.user = user, !.pid = id]]
            /\ resp' = NoResp
  /\ UNCHANGED << stripe, purchases, userRoles, notifications, sales, sessions, hist, now, cap, accounts >>

\* recordDownload's save, then the response with the download URL
DownloadSave(r) ==
  /\ At(r, "download", "save_download")
  /\ purchases' = [purchases EXCEPT ![req[r].pid] = SaveDoc(@, req[r].doc, req[r].dirty)]
  /\ Bump(req[r].pid, "redeemed")
  /\ Respond(r, "download", 200, "Download recorded successfully")
  /\ UNCHANGED << stripe, userRoles, notifications, sales, sessions, now, cap, accounts >>

(***************************************************************************)
(* POST /api/purchases                                                     *)
(***************************************************************************)
SoftwareInputs == {0, 1, 2, 5}
MethodInputs == {"Card", ""}

\* softwareSchema.methods.isPurchasable
IsPurchasable(sw) == sw.status = "Active" \/ sw.status = "Beta"

\* the ownership lookup with the wrong status in its filter
OwnsSoftware_pending(user, softwareId) ==
  \E p \in DOMAIN purchases :
    /\ purchases[p].userId = user
    /\ purchases[p].softwareId = softwareId
    /\ purchases[p].status = "Pending"

\* Purchase.findOne({userId, softwareId, status: 'Completed'})
OwnsSoftware(user, softwareId) ==
  \E p \in DOMAIN purchases :
    /\ purchases[p].userId = user
    /\ purchases[p].softwareId = softwareId
    /\ purchases[p].status = "Completed"

\* the request up to Software.findOne
PostPurchase(r) ==
  /\ Free(r)
  /\ Cardinality(DOMAIN purchases) + Creating < cap.purchases
  /\ \E user \in Buyers, softwareId \in SoftwareInputs, method \in MethodInputs :
       IF ~TruthyN(softwareId) \/ ~TruthyS(method)
         THEN Respond(r, "purchase", 400, "Software ID and payment method are required")
       ELSE IF softwareId \notin DOMAIN Software
         THEN Respond(r, "purchase", 404, "Software not found")
       ELSE IF ~IsPurchasable(Software[softwareId])
         THEN Respond(r, "purchase", 400, "Software is not available for purchase")
       ELSE /\ req' = [req EXCEPT ![r] =
                         [Idle EXCEPT !.kind = "purchase", !.pc = "check_owned",
                                      !.user = user, !.totalSales = sales[softwareId],
                                      !.doc = NewPurchase(user, softwareId, method,
                                                          Software[softwareId].price,
                                                          Software[softwareId].currency)]]
            /\ resp' = NoResp
  /\ UNCHANGED << stripe, purchases, userRoles, notifications, sales, sessions, hist, now, cap, accounts >>

\* the ownership check
PurchaseCheckOwned(r) ==
  /\ At(r, "purchase", "check_owned")
  /\ IF OwnsSoftware(req[r].user, req[r].doc.softwareId)
       THEN Respond(r, "purchase", 409, "You already own this software")
       ELSE /\ req' = [req EXCEPT ![r].pc = "lastid"]
            /\ resp' = NoResp
  /\ UNCHANGED << stripe, purchases, userRoles, notifications, sales, sessions, hist, now, cap, accounts >>

\* purchase.save(): the pre-save hook reads the highest id
PurchaseLastId(r) ==
  /\ At(r, "purchase", "lastid")
  /\ req' = [req EXCEPT ![r].lastId = LastId(purchases), ![r].pc = "insert"]
  /\ resp' = NoResp
  /\ UNCHANGED << stripe, purchases, userRoles, notifications, sales, sessions, hist, now, cap, accounts >>

\* purchase.save(): the insert; then completePurchase up to its save
PurchaseInsert(r) ==
  /\ At(r, "purchase", "insert")
  /\ LET id == req[r].lastId + 1 IN
       IF id \in DOMAIN purchases
         THEN /\ Respond(r, "purchase", 500, "Server error while processing purchase")
              /\ UNCHANGED << purchases, hist >>
         ELSE /\ purchases' = Insert(purchases, id, req[r].doc)
              /\ hist' = Insert(hist, id, NoHist)
              /\ req' = [req EXCEPT ![r] =
                           [CompletePurchase(req[r], << "DEMO", now >>, now)
                              EXCEPT !.pid = id, !.pc = "complete"]]
              /\ resp' = NoResp
  /\ UNCHANGED << stripe, userRoles, notifications, sales, sessions, now, cap, accounts >>

\* completePurchase's save; then incrementSales up to its save
PurchaseComplete(r) ==
  /\ At(r, "purchase", "complete")
  /\ purchases' = [purchases EXCEPT ![req[r].pid] = SaveDoc(@, req[r].doc, req[r].dirty)]
  /\ req' = [req EXCEPT ![r].dirty = {}, ![r].totalSales = @ + 1, ![r].pc = "sales"]
  /\ resp' = NoResp
  /\ UNCHANGED << stripe, userRoles, notifications, sales, sessions, hist, now, cap, accounts >>

\* incrementSales' save; then the 201 response
PurchaseSales(r) ==
  /\ At(r, "purchase", "sales")
  /\ sales' = [sales EXCEPT ![req[r].doc.softwareId] = req[r].totalSales]
  /\ Respond(r, "purchase", 201, "Purchase completed successfully")
  /\ UNCHANGED << stripe, purchases, userRoles, notifications, sessions, hist, now, cap, accounts >>

(***************************************************************************)
(* Token wallet methods                                                    *)
(***************************************************************************)
DailyReward == 1
WeeklyBonus == 7
StreakWeek == 7

\* the transaction id addTokens and spendTokens give: highest id of the list plus one
NextTransactionId(w) ==
  IF Len(w.transactions) = 0 THEN 1
  ELSE 1 + (CHOOSE m \in {w.transactions[i].id : i \in DOMAIN w.transactions} :
              \A i \in DOMAIN w.transactions : w.transactions[i].id <= m)

\* tokenWalletSchema.methods.addTokens, up to the save
AddTokens(w, amount) ==
  [w EXCEPT !.balance = @ + amount,
            !.totalEarned = @ + amount,
            !.transactions = Append(@, [id |-> NextTransactionId(w), type |-> "earn",
                                        amount |-> amount])]

\* tokenWalletSchema.methods.spendTokens: the test that throws 'Insufficient tokens'
CanSpend(w, amount) == ~(w.balance < amount)

\* tokenWalletSchema.methods.spendTokens, up to the save
SpendTokens(w, amount) ==
  [w EXCEPT !.balance = @ - amount,
            !.totalSpent = @ + amount,
            !.transactions = Append(@, [id |-> NextTransactionId(w), type |-> "spend",
                                        amount |-> amount])]

\* tokenWalletSchema.methods.claimDailyReward, up to the save: the streak, the daily
\* reward and the weekly bonus
ClaimDailyReward(w, t) ==
  LET streak == IF w.lastDailyReward # Null /\ w.lastDailyReward = t - 1
                THEN w.currentStreak + 1 ELSE 1
      daily == [AddTokens(w, DailyReward) EXCEPT !.currentStreak = streak,
                                                 !.lastDailyReward = t]
  IN  IF streak % StreakWeek = 0 THEN AddTokens(daily, WeeklyBonus) ELSE daily

\* the paths of the wallet that save() writes with $set: those whose value has changed
ModifiedPaths(loaded, w) ==
  {f \in {"balance", "totalEarned", "totalSpent", "lastDailyReward", "currentStreak"} :
     w[f] # loaded[f]}

\* the transactions pushed onto the loaded list, which save() appends with $push
Pushed(loaded, w) == SubSeq(w.transactions, Len(loaded.transactions) + 1, Len(w.transactions))

\* wallet.save() of an existing wallet
SaveWallet(stored, w, dirty, pushed) ==
  [f \in DOMAIN stored |->
     IF f = "transactions" THEN stored.transactions \o pushed
     ELSE IF f \in dirty THEN w[f]
     ELSE stored[f]]

(***************************************************************************)
(* POST /api/tokens/claim-daily and POST /api/tokens/redeem                *)
(***************************************************************************)
Redemptions ==
  [id \in {"profile-effect", "desync-movement-1week", "desync-hvh-1week"} |->
     CASE id = "profile-effect" ->
            [cost |-> 50, type |-> "cosmetic", roleSlug |-> NullS, duration |-> Null]
       [] id = "desync-movement-1week" ->
            [cost |-> 100, type |-> "access", roleSlug |-> "desync-movement", duration |-> 7]
       [] id = "desync-hvh-1week" ->
            [cost |-> 150, type |-> "access", roleSlug |-> "desync-hvh", duration |-> 7]]

RedemptionInputs == DOMAIN Redemptions \cup {"", "nope"}

\* what wallet.save() of the claim does with the second save() of claimDailyReward
ClaimOutcomes == {"saved", "parallel_save"}

\* transactions stored for the user, and token requests of the user in flight
TokenLoad(user) ==
  (IF user \in DOMAIN wallets THEN Len(wallets[user].transactions) ELSE 0)
    + Cardinality({q \in Slots : req[q].kind \in {"claim", "tokens"} /\ req[q].user = user})

\* the answer of a token route
TokenAnswer(r, kind, user, item, code, msg) ==
  /\ req' = [req EXCEPT ![r] = Idle]
  /\ resp' = [NoResp EXCEPT !.kind = kind, !.code = code, !.msg = msg, !.user = user,
                            !.slug = item]

\* Role.findOne({slug})
FindRoleBySlug(slug) == {id \in DOMAIN roles : roles[id].slug = slug}

\* claim-daily up to the save: TokenWallet.findOne, then claimDailyReward
ClaimDaily(r) ==
  /\ Free(r)
  /\ \E user \in Buyers :
       LET found == user \in DOMAIN wallets
           loaded == IF found THEN wallets[user] ELSE NewWallet
       IN  IF loaded.lastDailyReward # Null /\ loaded.lastDailyReward = now
             THEN TokenAnswer(r, "claim", user, NullS, 400, "Daily reward already claimed")
           ELSE /\ TokenLoad(user) < MaxTransactions
                /\ LET w == ClaimDailyReward(loaded, now) IN
                     req' = [req EXCEPT ![r] =
                               [Idle EXCEPT !.kind = "claim", !.pc = "claim_save",
                                            !.user = user, !.wallet = w, !.isNew = ~found,
                                            !.dirty = ModifiedPaths(loaded, w),
                                            !.pushed = Pushed(loaded, w)]]
                /\ resp' = NoResp
  /\ UNCHANGED << stripe, purchases, userRoles, notifications, sales, sessions, hist, now,
                  cap, accounts >>

\* the save of the claim: the insert of a new wallet under the unique index on userUid, or
\* the update of the stored one; then the answer of the route
ClaimSave(r) ==
  /\ At(r, "claim", "claim_save")
  /\ LET user == req[r].user IN
       IF req[r].isNew /\ user \in DOMAIN wallets
         THEN /\ TokenAnswer(r, "claim", user, NullS, 400, "duplicate key")
              /\ UNCHANGED wallets
       ELSE /\ wallets' = IF req[r].isNew THEN Insert(wallets, user, req[r].wallet)
                          ELSE [wallets EXCEPT ![user] =
                                  SaveWallet(@, req[r].wallet, req[r].dirty, req[r].pushed)]
            /\ \E outcome \in ClaimOutcomes :
                 IF outcome = "parallel_save"
                   THEN TokenAnswer(r, "claim", user, NullS, 400, "parallel save")
                   ELSE /\ req' = [req EXCEPT ![r].pc = "notify_lastid", ![r].dirty = {},
                                              ![r].pushed = << >>]
                        /\ resp' = NoResp
  /\ UNCHANGED << stripe, purchases, userRoles, notifications, sales, sessions, hist, now,
                  cap, roles, codes, users, accepted >>

\* redeem up to the save of the wallet: TokenWallet.findOne, the checks, spendTokens
TokenRedeem(r) ==
  /\ Free(r)
  /\ \E user \in Buyers, item \in RedemptionInputs :
       IF ~TruthyS(item)
         THEN TokenAnswer(r, "tokens", user, item, 400, "Redemption ID is required")
       ELSE IF user \notin DOMAIN wallets
         THEN TokenAnswer(r, "tokens", user, item, 400, "Wallet not found")
       ELSE IF item \notin DOMAIN Redemptions
         THEN TokenAnswer(r, "tokens", user, item, 400, "Invalid redemption ID")
       ELSE IF wallets[user].balance < Redemptions[item].cost
         THEN TokenAnswer(r, "tokens", user, item, 400, "Insufficient tokens")
       ELSE IF ~CanSpend(wallets[user], Redemptions[item].cost)
         THEN TokenAnswer(r, "tokens", user, item, 500, "Insufficient tokens")
       ELSE /\ TokenLoad(user) < MaxTransactions
            /\ LET w == SpendTokens(wallets[user], Redemptions[item].cost) IN
                 req' = [req EXCEPT ![r] =
                           [Idle EXCEPT !.kind = "tokens", !.pc = "spend_save",
                                        !.user = user, !.item = item, !.wallet = w,
                                        !.dirty = ModifiedPaths(wallets[user], w),
                                        !.pushed = Pushed(wallets[user], w)]]
            /\ resp' = NoResp
  /\ UNCHANGED << stripe, purchases, userRoles, notifications, sales, sessions, hist, now,
                  cap, accounts >>

\* the entitlement of an access reward: expiry and new UserRole
BuildTokenGrant(rq, roleId, t) ==
  [rq EXCEPT !.roleId = roleId, !.assignedAt = t,
             !.expiresAt = t + Redemptions[rq.item].duration, !.pc = "grant_lastid"]

\* the save of the spent wallet; then, for an access reward, Role.findOne
SpendSave(r) ==
  /\ At(r, "tokens", "spend_save")
  /\ wallets' = [wallets EXCEPT ![req[r].user] =
                   SaveWallet(@, req[r].wallet, req[r].dirty, req[r].pushed)]
  /\ LET reward == Redemptions[req[r].item]
         paid == [req[r] EXCEPT !.dirty = {}, !.pushed = << >>, !.paid = reward.cost]
     IN  IF reward.type = "access" /\ TruthyS(reward.roleSlug)
           THEN /\ req' = [req EXCEPT ![r] =
                             IF FindRoleBySlug(reward.roleSlug) = {}
                               THEN [paid EXCEPT !.pc = "role_lastid"]
                               ELSE BuildTokenGrant(paid,
                                      CHOOSE id \in FindRoleBySlug(reward.roleSlug) : TRUE,
                                      now)]
                /\ resp' = NoResp
           ELSE /\ req' = [req EXCEPT ![r] = Idle]
                /\ resp' = [NoResp EXCEPT !.kind = "tokens", !.code = 200,
                                          !.msg = "Redemption successful",
                                          !.user = req[r].user, !.slug = req[r].item]
  /\ UNCHANGED << stripe, purchases, userRoles, notifications, sales, sessions, hist, now,
                  cap, roles, codes, users, accepted >>

\* the catch block of the redeem route
TokenThrow(r) ==
  /\ req' = [req EXCEPT ![r] = Idle]
  /\ resp' = [NoResp EXCEPT !.kind = "tokens", !.code = 500, !.msg = "duplicate key",
                            !.user = req[r].user, !.slug = req[r].item, !.threw = TRUE]

\* role.save() of the role the reward needs: the pre-save hook reads the highest id
TokenRoleLastId(r) ==
  /\ At(r, "tokens", "role_lastid")
  /\ req' = [req EXCEPT ![r].lastId = LastId(roles), ![r].pc = "role_insert"]
  /\ resp' = NoResp
  /\ UNCHANGED << stripe, purchases, userRoles, notifications, sales, sessions, hist, now,
                  cap, accounts >>

\* role.save(): the insert under the unique indexes on id and slug
TokenRoleInsert(r) ==
  /\ At(r, "tokens", "role_insert")
  /\ LET id == req[r].lastId + 1
         slug == Redemptions[req[r].item].roleSlug
     IN  IF id \in DOMAIN roles \/ FindRoleBySlug(slug) # {}
           THEN /\ TokenThrow(r)
                /\ UNCHANGED roles
           ELSE /\ roles' = Insert(roles, id, [slug |-> slug])
                /\ req' = [req EXCEPT ![r] = BuildTokenGrant(req[r], id, now)]
                /\ resp' = NoResp
  /\ UNCHANGED << stripe, purchases, userRoles, notifications, sales, sessions, hist, now,
                  cap, wallets, codes, users, accepted >>

\* userRole.save(): the pre-save hook reads the highest id
TokenGrantLastId(r) ==
  /\ At(r, "tokens", "grant_lastid")
  /\ req' = [req EXCEPT ![r].lastId = LastId(userRoles), ![r].pc = "grant_insert"]
  /\ resp' = NoResp
  /\ UNCHANGED << stripe, purchases, userRoles, notifications, sales, sessions, hist, now,
                  cap, accounts >>

\* a grant that prolongs the assignment the user already holds of the role, where there is one
TokenGrantInsert_extend(r) ==
  /\ At(r, "tokens", "grant_insert")
  /\ LET id == req[r].lastId + 1
         held == {h \in DOMAIN userRoles : /\ userRoles[h].userUid = req[r].user
                                          /\ userRoles[h].roleId = req[r].roleId}
     IN  IF id \in DOMAIN userRoles
           THEN /\ TokenThrow(r)
                /\ UNCHANGED userRoles
         ELSE /\ userRoles' = IF held = {}
                                THEN Insert(userRoles, id,
                                            [userUid |-> req[r].user, roleId |-> req[r].roleId,
                                             assignedAt |-> req[r].assignedAt,
                                             assignedBy |-> req[r].user,
                                             expiresAt |-> req[r].expiresAt])
                                ELSE [userRoles EXCEPT ![CHOOSE h \in held : TRUE].expiresAt =
                                        @ + Redemptions[req[r].item].duration]
              /\ req' = [req EXCEPT ![r].pc = "notify_lastid"]
              /\ resp' = NoResp
  /\ UNCHANGED << stripe, purchases, notifications, sales, sessions, hist, now, cap,
                  accounts >>

\* userRole.save(): the insert under the unique index on id
TokenGrantInsert(r) ==
  /\ At(r, "tokens", "grant_insert")
  /\ LET id == req[r].lastId + 1 IN
       IF id \in DOMAIN userRoles
         THEN /\ TokenThrow(r)
              /\ UNCHANGED userRoles
         ELSE /\ userRoles' = Insert(userRoles, id,
                                     [userUid |-> req[r].user, roleId |-> req[r].roleId,
                                      assignedAt |-> req[r].assignedAt,
                                      assignedBy |-> req[r].user,
                                      expiresAt |-> req[r].expiresAt])
              /\ req' = [req EXCEPT ![r].pc = "notify_lastid"]
              /\ resp' = NoResp
  /\ UNCHANGED << stripe, purchases, notifications, sales, sessions, hist, now, cap,
                  accounts >>

\* Notification.createNotification of a token route: the pre-save hook reads the highest id
TokenNotifyLastId(r) ==
  /\ req[r].kind \in {"claim", "tokens"}
  /\ req[r].pc = "notify_lastid"
  /\ req' = [req EXCEPT ![r].lastId = LastId(notifications), ![r].pc = "notify_insert"]
  /\ resp' = NoResp
  /\ UNCHANGED << stripe, purchases, userRoles, notifications, sales, sessions, hist, now,
                  cap, accounts >>

\* Notification.createNotification of a token route: the insert, then the 200 answer; a
\* failure is caught by the inner catch of claim-daily (400) or the catch of redeem (500)
TokenNotifyInsert(r) ==
  /\ req[r].kind \in {"claim", "tokens"}
  /\ req[r].pc = "notify_insert"
  /\ \E outcome \in SaveOutcomes :
       LET id == req[r].lastId + 1 IN
       IF outcome = "rejected" \/ id \in DOMAIN notifications
         THEN /\ req' = [req EXCEPT ![r] = Idle]
              /\ resp' = [NoResp EXCEPT !.kind = req[r].kind,
                                        !.code = IF req[r].kind = "claim" THEN 400 ELSE 500,
                                        !.msg = "notification", !.user = req[r].user,
                                        !.slug = req[r].item, !.threw = TRUE]
              /\ UNCHANGED notifications
         ELSE /\ notifications' = Insert(notifications, id,
                                         [userUid |-> req[r].user,
                                          title |-> IF req[r].kind = "claim"
                                                    THEN "Daily Reward Claimed!"
                                                    ELSE "Redemption Successful!",
                                          relatedId |-> Null])
              /\ req' = [req EXCEPT ![r] = Idle]
              /\ resp' = [NoResp EXCEPT !.kind = req[r].kind, !.code = 200,
                                        !.msg = IF req[r].kind = "claim"
                                                THEN "Daily reward claimed successfully"
                                                ELSE "Redemption successful",
                                        !.user = req[r].user, !.slug = req[r].item]
  /\ UNCHANGED << stripe, purchases, userRoles, sales, sessions, hist, now, cap, accounts >>

(***************************************************************************)
(* Invitation code methods                                                 *)
(***************************************************************************)
\* invitationCodeSchema.methods.isExpired
InviteExpired(c, t) == t >= c.expiresAt

\* invitationCodeSchema.methods.isValid
InviteValid(c, t) == ~c.used /\ c.currentUses < c.maxUses /\ t < c.expiresAt

\* invitationCodeSchema.methods.markAsUsed, up to the save
MarkAsUsed(c, uid, t) ==
  LET uses == c.currentUses + 1 IN
    IF uses >= c.maxUses
      THEN [c EXCEPT !.currentUses = uses, !.used = TRUE, !.usedBy = uid, !.usedAt = t]
      ELSE [c EXCEPT !.currentUses = uses]

(***************************************************************************)
(* POST /api/auth/register                                                 *)
(***************************************************************************)
Registrants == {"ann", "Ann", "bob"}
CodeInputs == {"beta", "BETA", "nope", ""}

\* String.prototype.toLowerCase and toUpperCase on the values above
Lower(s) == IF s = "Ann" THEN "ann" ELSE IF s = "BETA" THEN "beta" ELSE s
Upper(s) == IF s = "beta" THEN "BETA" ELSE IF s = "ann" THEN "ANN" ELSE s

\* a registrant's address is its name at an allowed domain
EmailOf(name) == Lower(name)

\* the message for a code that is not valid
InviteRefusal(c, t) ==
  IF InviteExpired(c, t) THEN "Invitation code has expired"
  ELSE IF c.used \/ c.currentUses >= c.maxUses THEN "Invitation code has already been used"
  ELSE "Invalid invitation code"

\* the answer of the register route
RegisterAnswer(r, name, code, status, msg) ==
  /\ req' = [req EXCEPT ![r] = Idle]
  /\ resp' = [NoResp EXCEPT !.kind = "register", !.code = status, !.msg = msg,
                            !.slug = code, !.duration = name]

\* the field check, then User.findOne({email})
Register(r) ==
  /\ Free(r)
  /\ \E name \in Registrants, code \in CodeInputs :
       IF ~TruthyS(code)
         THEN RegisterAnswer(r, name, code, 400, "All fields are required")
       ELSE IF \E u \in DOMAIN users : users[u].email = EmailOf(name)
         THEN RegisterAnswer(r, name, code, 409, "Email already registered")
       ELSE /\ Cardinality(DOMAIN users) + InFlight("register") < MaxUsers
            /\ req' = [req EXCEPT ![r] =
                         [Idle EXCEPT !.kind = "register", !.pc = "find_username",
                                      !.name = name, !.code = code]]
            /\ resp' = NoResp
  /\ UNCHANGED << stripe, purchases, userRoles, notifications, sales, sessions, hist, now,
                  cap, accounts >>

\* User.findOne({username: /^username$/i})
RegisterFindUsername(r) ==
  /\ At(r, "register", "find_username")
  /\ IF \E u \in DOMAIN users : Lower(users[u].username) = Lower(req[r].name)
       THEN RegisterAnswer(r, req[r].name, req[r].code, 409, "Username already taken")
       ELSE /\ req' = [req EXCEPT ![r].pc = "find_code"]
            /\ resp' = NoResp
  /\ UNCHANGED << stripe, purchases, userRoles, notifications, sales, sessions, hist, now,
                  cap, accounts >>

\* InvitationCode.findOne({code: invitationCode.toUpperCase()}) and isValid; then the hash
\* of the password
RegisterFindCode(r) ==
  /\ At(r, "register", "find_code")
  /\ LET code == Upper(req[r].code) IN
       IF code \notin DOMAIN codes
         THEN RegisterAnswer(r, req[r].name, req[r].code, 400, "Invalid invitation code")
       ELSE IF ~InviteValid(codes[code], now)
         THEN RegisterAnswer(r, req[r].name, req[r].code, 400,
                             InviteRefusal(codes[code], now))
       ELSE /\ req' = [req EXCEPT ![r].invite = codes[code], ![r].pc = "user_lastid"]
            /\ resp' = NoResp
  /\ UNCHANGED << stripe, purchases, userRoles, notifications, sales, sessions, hist, now,
                  cap, accounts >>

\* newUser.save(): the pre-save hook reads the highest uid
RegisterUserLastId(r) ==
  /\ At(r, "register", "user_lastid")
  /\ req' = [req EXCEPT ![r].lastId = LastId(users), ![r].pc = "user_insert"]
  /\ resp' = NoResp
  /\ UNCHANGED << stripe, purchases, userRoles, notifications, sales, sessions, hist, now,
                  cap, accounts >>

\* newUser.save(): the insert under the unique indexes on uid, email and username
RegisterUserInsert(r) ==
  /\ At(r, "register", "user_insert")
  /\ LET uid == req[r].lastId + 1 IN
       IF \/ uid \in DOMAIN users
          \/ \E u \in DOMAIN users : \/ users[u].email = EmailOf(req[r].name)
                                     \/ users[u].username = req[r].name
         THEN /\ RegisterAnswer(r, req[r].name, req[r].code, 409, "already exists")
              /\ UNCHANGED users
         ELSE /\ users' = Insert(users, uid, [email |-> EmailOf(req[r].name),
                                              username |-> req[r].name])
              /\ req' = [req EXCEPT ![r].user = uid, ![r].pc = "mark_used"]
              /\ resp' = NoResp
  /\ UNCHANGED << stripe, purchases, userRoles, notifications, sales, sessions, hist, now,
                  cap, wallets, roles, codes, accepted >>

\* inviteCode.markAsUsed(newUser.uid) and its save; then the 201 answer
RegisterMarkUsed(r) ==
  /\ At(r, "register", "mark_used")
  /\ LET code == Upper(req[r].code)
         marked == MarkAsUsed(req[r].invite, req[r].user, now)
         dirty == {f \in DOMAIN marked : marked[f] # req[r].invite[f]}
     IN  /\ codes' = [codes EXCEPT ![code] = SaveDoc(@, marked, dirty)]
         /\ accepted' = [accepted EXCEPT ![code] = @ + 1]
         /\ RegisterAnswer(r, req[r].name, req[r].code, 201, "Registration successful")
  /\ UNCHANGED << stripe, purchases, userRoles, notifications, sales, sessions, hist, now,
                  cap, wallets, roles, users >>

Checkout(r) ==
  \/ CreateCheckoutSession(r)
  \/ CheckoutInsert(r)
  \/ CheckoutStripeCreate(r)
  \/ CheckoutSaveSession(r)

\* the webhook route and the steps of handleCheckoutSessionCompleted
Completion(r) ==
  \/ Webhook(r)
  \/ CompletedSave(r)
  \/ CompletedRoleLastId(r)
  \/ CompletedRoleInsert(r)
  \/ CompletedSaveExpiry(r)
  \/ NotifyLastId(r)
  \/ NotifyInsert(r)

Callback(r) == Completion(r) \/ FailedSave(r)

Redeem(r) ==
  \/ Download(r)
  \/ DownloadSave(r)

RedeemReward(r) ==
  \/ TokenRedeem(r)
  \/ SpendSave(r)
  \/ TokenRoleLastId(r)
  \/ TokenRoleInsert(r)
  \/ TokenGrantLastId(r)
  \/ TokenGrantInsert(r)
  \/ TokenNotifyLastId(r)
  \/ TokenNotifyInsert(r)

Tokens(r) ==
  \/ ClaimDaily(r)
  \/ ClaimSave(r)
  \/ RedeemReward(r)

Registration(r) ==
  \/ Register(r)
  \/ RegisterFindUsername(r)
  \/ RegisterFindCode(r)
  \/ RegisterUserLastId(r)
  \/ RegisterUserInsert(r)
  \/ RegisterMarkUsed(r)

Buy(r) ==
  \/ PostPurchase(r)
  \/ PurchaseCheckOwned(r)
  \/ PurchaseLastId(r)
  \/ PurchaseInsert(r)
  \/ PurchaseComplete(r)
  \/ PurchaseSales(r)

\* the requests of the purchase lifecycle, interleaved
Next == Tick \/ \E r \in Slots : Checkout(r) \/ Callback(r) \/ Redeem(r) \/ Buy(r)

Spec == Init /\ [][Next]_vars

\* two purchases and their callbacks, interleaved
InitRace ==
  Start([slots |-> MaxInFlight, time |-> 0, purchases |-> RacePurchases,
         notifications |-> RaceNotifications, redeemed |-> 0])

NextRace == \E r \in Slots : Checkout(r) \/ Callback(r)

SpecRace == InitRace /\ [][NextRace]_vars

\* one purchase redeemed up to and beyond its download limit
InitGate ==
  Start([slots |-> MaxInFlight, time |-> GateTime, purchases |-> MaxPurchases,
         notifications |-> GateNotifications, redeemed |-> GateRedeemed])

\* a failed payment is found only after a completion has stored its payment id; with one
\* callback handled there is none
NextGate == Tick \/ \E r \in Slots : Checkout(r) \/ Completion(r) \/ Redeem(r) \/ Buy(r)

SpecGate == InitGate /\ [][NextGate]_vars

\* a second purchase asked for by a buyer who holds one
InitOwn ==
  Start([slots |-> MaxInFlight, time |-> GateTime, purchases |-> RacePurchases,
         notifications |-> GateNotifications, redeemed |-> 0])

NextOwn == Tick \/ \E r \in Slots : Checkout(r) \/ Completion(r) \/ Buy(r)

SpecOwn == InitOwn /\ [][NextOwn]_vars

\* the values of the status enum
Statuses == {"Pending", "Completed", "Failed", "Refunded", "Cancelled"}

\* purchase documents as the download route can find them
StoredPurchases ==
  { [NewPurchase(1, 1, "Card", 20, "USD")
       EXCEPT !.status = s, !.downloadCount = c, !.expiresAt = e] :
      s \in Statuses, c \in 0..DefaultMaxDownloads, e \in {Null, 0, 1} }

\* one stored purchase, redeemed
InitRedeem ==
  /\ stripe = FALSE
  /\ purchases \in {<< d >> : d \in StoredPurchases}
  /\ userRoles = << >>
  /\ notifications = << >>
  /\ sales = [id \in DOMAIN Software |-> 0]
  /\ sessions = << >>
  /\ req = [r \in Slots |-> Idle]
  /\ resp = NoResp
  /\ cap = [slots |-> MaxInFlight, time |-> MaxTime, purchases |-> MaxPurchases,
            notifications |-> 0, redeemed |-> RedeemRuns]
  /\ hist = << NoHist >>
  /\ now = 0
  /\ NoAccounts

NextRedeem == Tick \/ \E r \in Slots : Redeem(r)

SpecRedeem == InitRedeem /\ [][NextRedeem]_vars

\* Pending purchases of the checkout request, with the durationDays a tier can carry
PaidPurchases ==
  { [NewPurchase(1, Products[slug].id, "Card", 10, "USD")
       EXCEPT !.productSlug = slug, !.duration = "1day", !.durationDays = days,
              !.stripeSessionId = 1] :
      slug \in {"pro", "ghost", "lite"}, days \in {Null, 0 - 2, 0, 1, 2} }

\* one purchase with its checkout session, and the session's callbacks
InitGrant ==
  /\ stripe \in BOOLEAN
  /\ purchases \in {<< d >> : d \in PaidPurchases}
  /\ userRoles = << >>
  /\ notifications = << >>
  /\ sales = [id \in DOMAIN Software |-> 0]
  /\ sessions = << [ref |-> "1", metaRef |-> "1", pi |-> 1] >>
  /\ req = [r \in Slots |-> Idle]
  /\ resp = NoResp
  /\ cap = [slots |-> MaxInFlight, time |-> MaxTime, purchases |-> MaxPurchases,
            notifications |-> RaceNotifications, redeemed |-> 0]
  /\ hist = << NoHist >>
  /\ now = 0
  /\ NoAccounts

NextGrant == Tick \/ \E r \in Slots : Completion(r)

SpecGrant == InitGrant /\ [][NextGrant]_vars

\* what earlier callbacks have left of a checkout purchase: nothing yet, a completion,
\* or a completion followed by a payment failure (with or without error message)
CallbackTraces ==
  { [status |-> "Pending", pi |-> Null, notes |-> NullS, titles |-> << >>],
    [status |-> "Completed", pi |-> 1, notes |-> NullS, titles |-> << "Purchase Complete!" >>],
    [status |-> "Failed", pi |-> 1, notes |-> "card_declined",
     titles |-> << "Purchase Complete!", "Payment Failed" >>],
    [status |-> "Failed", pi |-> 1, notes |-> "Payment failed",
     titles |-> << "Purchase Complete!", "Payment Failed" >>] }

\* one purchase as earlier callbacks at time 0 left it, and the callbacks that follow
InitFail ==
  /\ stripe \in BOOLEAN
  /\ sales = [id \in DOMAIN Software |-> 0]
  /\ sessions = << [ref |-> "1", metaRef |-> "1", pi |-> 1] >>
  /\ req = [r \in Slots |-> Idle]
  /\ resp = NoResp
  /\ now = 0
  /\ NoAccounts
  /\ \E c \in CallbackTraces :
       /\ purchases =
            << [NewPurchase(1, Products["pro"].id, "Card", 10, "EUR")
                  EXCEPT !.productSlug = "pro", !.duration = "1day", !.durationDays = 1,
                         !.stripeSessionId = 1, !.status = c.status, !.notes = c.notes,
                         !.stripePaymentId = c.pi,
                         !.completedAt = IF c.pi = Null THEN Null ELSE 0,
                         !.expiresAt = IF c.pi = Null THEN Null ELSE 1,
                         !.transactionId = IF c.pi = Null THEN NoTx ELSE << "cs", 1 >>] >>
       /\ userRoles =
            IF c.pi = Null THEN << >>
            ELSE << [userUid |-> 1, roleId |-> Products["pro"].roleId, assignedAt |-> 0,
                     assignedBy |-> 1, expiresAt |-> 1] >>
       /\ notifications =
            [i \in DOMAIN c.titles |-> [userUid |-> 1, title |-> c.titles[i], relatedId |-> 1]]
       /\ hist = << [NoHist EXCEPT !.handled = IF c.pi = Null THEN 0 ELSE 1,
                                   !.acked = IF c.pi = Null THEN 0 ELSE 1,
                                   !.granted = IF c.pi = Null THEN 0 ELSE 1] >>
       /\ cap = [slots |-> MaxInFlight, time |-> GateTime, purchases |-> MaxPurchases,
                 notifications |-> Len(c.titles) + RaceNotifications, redeemed |-> 0]

NextFail == Tick \/ \E r \in Slots : Callback(r)

SpecFail == InitFail /\ [][NextFail]_vars

\* wallets as earlier earnings left them: a balance earned at once, or a balance with a
\* streak of six days whose last reward was claimed at time 0
EarnedWallets ==
  { [AddTokens(NewWallet, 100) EXCEPT !.currentStreak = 0],
    [AddTokens(NewWallet, 250) EXCEPT !.currentStreak = 6, !.lastDailyReward = 0] }

\* the buyer with one of the wallets ws and with a checkout purchase awaiting its callback
StartTokens(maxNotifications, ws) ==
  /\ stripe \in BOOLEAN
  /\ purchases =
       << [NewPurchase(1, Products["pro"].id, "Card", 10, "EUR")
             EXCEPT !.productSlug = "pro", !.duration = "1day", !.durationDays = 1,
                    !.stripeSessionId = 1] >>
  /\ userRoles = << >>
  /\ notifications = << >>
  /\ sales = [id \in DOMAIN Software |-> 0]
  /\ sessions = << [ref |-> "1", metaRef |-> "1", pi |-> 1] >>
  /\ req = [r \in Slots |-> Idle]
  /\ resp = NoResp
  /\ cap = [slots |-> MaxInFlight, time |-> GateTime, purchases |-> MaxPurchases,
            notifications |-> maxNotifications, redeemed |-> 0]
  /\ hist = << NoHist >>
  /\ now = 0
  /\ wallets \in ws
  /\ roles = BaseRoles
  /\ codes = << >>
  /\ users = << >>
  /\ accepted = << >>

\* the buyer with or without a wallet
InitTokens ==
  StartTokens(RaceNotifications, {<< >>} \cup {[u \in Buyers |-> w] : w \in EarnedWallets})

NextTokens == Tick \/ \E r \in Slots : Tokens(r)

SpecTokens == InitTokens /\ [][NextTokens]_vars

\* the buyer with a wallet and with a checkout purchase awaiting its callback: entitlements
\* come from the completion handler and from redemptions
InitEntitle == StartTokens(GateNotifications, {[u \in Buyers |-> w] : w \in EarnedWallets})

NextEntitle == \E r \in Slots : Completion(r) \/ RedeemReward(r)

SpecEntitle == InitEntitle /\ [][NextEntitle]_vars

\* the invitation code "BETA" with one or two uses, expiring at time 1 or after the run,
\* and nobody registered
InitRegister ==
  /\ stripe = TRUE
  /\ purchases = << >>
  /\ userRoles = << >>
  /\ notifications = << >>
  /\ sales = [id \in DOMAIN Software |-> 0]
  /\ sessions = << >>
  /\ req = [r \in Slots |-> Idle]
  /\ resp = NoResp
  /\ cap = [slots |-> MaxInFlight, time |-> GateTime, purchases |-> MaxPurchases,
            notifications |-> 0, redeemed |-> 0]
  /\ hist = << >>
  /\ now = 0
  /\ wallets = << >>
  /\ roles = BaseRoles
  /\ \E maxUses \in {1, 2}, expiresAt \in {GateTime, MaxTime + 1} :
       codes = [c \in {"BETA"} |-> NewInvite(maxUses, expiresAt)]
  /\ users = << >>
  /\ accepted = [c \in {"BETA"} |-> 0]

NextRegister == Tick \/ \E r \in Slots : Registration(r)

SpecRegister == InitRegister /\ [][NextRegister]_vars

(***************************************************************************)
(* Properties                                                              *)
(***************************************************************************)
Ledger == << purchases, userRoles, notifications >>

\* the step is taken by a request of this kind
ByHandler(kind) ==
  \E r \in Slots : req'[r] # req[r] /\ (req[r].kind = kind \/ req'[r].kind = kind)

\* no completion callback for the purchase is being handled
Settled(p) ==
  \A r \in Slots : ~(req[r].kind = "webhook" /\ req[r].pid = p /\ req[r].ev.type = "completed")

\* C1: in every reachable state, every purchase has downloadCount <= maxDownloads
DownloadCountWithinLimit ==
  \A p \in DOMAIN purchases : purchases[p].downloadCount <= purchases[p].maxDownloads

LimitReachedByRedeems ==
  \E p \in DOMAIN purchases :
    /\ purchases[p].downloadCount = purchases[p].maxDownloads
    /\ hist[p].redeemed >= purchases[p].maxDownloads

\* C2: a redeem by the buyer that arrives at a Completed, unexpired purchase after
\* maxDownloads successful sequential redeems is answered 400 'Download limit exceeded'
\* and leaves the purchase (downloadCount and lastDownload included) as it was
RedeemBeyondLimitRefused ==
  [][\A p \in DOMAIN purchases :
       ( /\ purchases[p].status = "Completed"
         /\ ~Expired(purchases[p], now)
         /\ purchases[p].downloadCount = purchases[p].maxDownloads
         /\ hist[p].redeemed = purchases[p].maxDownloads
         /\ InFlight("download") = 0
         /\ \/ /\ req' = req
               /\ resp'.kind = "download"
               /\ resp'.pid = p
               /\ resp'.user = purchases[p].userId
            \/ \E r \in Slots : req'[r].kind = "download" /\ req'[r].pid = p )
       => /\ resp'.code = 400
          /\ resp'.msg = "Download limit exceeded"
          /\ purchases' = purchases]_vars

RefusedAfterLimit ==
  /\ resp.kind = "download"
  /\ resp.code = 400
  /\ resp.msg = "Download limit exceeded"
  /\ resp.pid \in DOMAIN purchases
  /\ hist[resp.pid].redeemed = DefaultMaxDownloads
  /\ purchases[resp.pid].downloadCount = DefaultMaxDownloads
  /\ ~Expired(purchases[resp.pid], now)

\* C3: a purchase whose status is not Pending never has status Pending again, whatever
\* step is taken, the checkout handler's second save after the callback included
NeverBackToPending ==
  [][\A p \in DOMAIN purchases :
       purchases[p].status # "Pending" => purchases'[p].status # "Pending"]_vars

CallbackBetweenSaves ==
  /\ resp.kind = "checkout"
  /\ resp.code = 200
  /\ resp.stale
  /\ purchases[resp.pid].status = "Completed"
  /\ purchases[resp.pid].stripeSessionId = resp.sid

\* C4: once Completed a purchase stays Completed or becomes Refunded, and a Failed,
\* Refunded or Cancelled purchase never becomes Completed
StatusMonotonic ==
  [][\A p \in DOMAIN purchases :
       /\ purchases[p].status = "Completed"
            => purchases'[p].status \in {"Completed", "Refunded"}
       /\ purchases[p].status \in {"Failed", "Refunded", "Cancelled"}
            => purchases'[p].status # "Completed"]_vars

\* C5 as stated: a purchase's status is changed only by the gateway callback handler
\* (from Pending to Completed or Failed), and no purchase record is deleted
OnlyCallbackChangesStatus ==
  [][/\ DOMAIN purchases \subseteq DOMAIN purchases'
     /\ \A p \in DOMAIN purchases :
          purchases'[p].status # purchases[p].status
            => /\ ByHandler("webhook")
               /\ purchases[p].status = "Pending"
                    => purchases'[p].status \in {"Completed", "Failed"}]_vars

\* C5 amended: a purchase's status is changed only by the gateway callback handler or by
\* the POST /purchases request that created the record, which completes it; a status
\* leaves Pending for Completed or Failed only; no purchase record is deleted
OnlyCallbackOrOwnPurchaseChangesStatus ==
  [][/\ DOMAIN purchases \subseteq DOMAIN purchases'
     /\ \A p \in DOMAIN purchases :
          purchases'[p].status # purchases[p].status
            => /\ \/ ByHandler("webhook")
                  \/ \E r \in Slots : /\ req[r].kind = "purchase"
                                      /\ req[r].pid = p
                                      /\ req'[r] # req[r]
                                      /\ purchases[p].status = "Pending"
                                      /\ purchases'[p].status = "Completed"
               /\ purchases[p].status = "Pending"
                    => purchases'[p].status \in {"Completed", "Failed"}]_vars

CompletedByPostPurchases ==
  /\ resp.kind = "purchase"
  /\ resp.code = 201
  /\ purchases[resp.pid].status = "Completed"
  /\ purchases[resp.pid].stripePaymentId = Null

\* C6: a purchase whose completion callback has been handled exactly once has left Pending
\* and has exactly one entitlement when its product specifies a role (of the role store),
\* none when it specifies no role
RoundTripGrantsOnce ==
  \A p \in DOMAIN purchases :
    (hist[p].handled = 1 /\ Settled(p))
      => /\ purchases[p].status # "Pending"
         /\ purchases[p].completedAt # Null
         /\ hist[p].granted = IF RoleToGrant(purchases[p]) # Null THEN 1 ELSE 0

\* C7: for a purchase whose product carries an existing role, the number of entitlements
\* granted equals the number of completion callbacks handled for it
GrantsEqualDeliveries ==
  \A p \in DOMAIN purchases :
    (RoleToGrant(purchases[p]) # Null /\ Settled(p))
      => hist[p].granted = hist[p].handled

\* C8: a webhook whose signature fails verification is answered 400, changes no purchase,
\* entitlement or notification, and never reaches a handler
InvalidSignatureRejected ==
  /\ [][(resp'.kind = "webhook" /\ resp'.sig = "forged")
          => (resp'.code = 400 /\ UNCHANGED Ledger)]_vars
  /\ [](\A r \in Slots : req[r].kind = "webhook" => req[r].sig = "valid")

ForgedWebhookRejected ==
  /\ resp.kind = "webhook"
  /\ resp.sig = "forged"
  /\ resp.code = 400
  /\ \E p \in DOMAIN purchases : purchases[p].status = "Pending"

UnknownPurchaseAcknowledged ==
  [][( /\ resp'.kind = "webhook"
       /\ resp'.sig = "valid"
       /\ resp'.ev.type = "completed"
       /\ \/ ~TruthyN(PurchaseIdOf(resp'.ev))
          \/ PurchaseIdOf(resp'.ev) \notin DOMAIN purchases )
     => (resp'.code = 200 /\ ~resp'.threw /\ UNCHANGED Ledger)]_vars

UnknownPurchaseSeen ==
  /\ resp.kind = "webhook"
  /\ resp.code = 200
  /\ resp.ev.type = "completed"
  /\ resp.ev.ref = ""
  /\ PurchaseIdOf(resp.ev) = 9
  /\ purchases # << >>
  /\ 9 \notin DOMAIN purchases

\* C11: a POST /purchases whose buyer holds a Completed purchase of the software when the
\* ownership lookup runs is answered 409, and the answer comes with no new purchase
\* record and no change of the sales counters
OwnedSoftwareRefused ==
  [][\A r \in Slots :
       ( /\ req[r].kind = "purchase"
         /\ req[r].pc = "check_owned"
         /\ req'[r] # req[r]
         /\ \E p \in DOMAIN purchases :
              /\ purchases[p].userId = req[r].user
              /\ purchases[p].softwareId = req[r].doc.softwareId
              /\ purchases[p].status = "Completed" )
       => /\ resp'.kind = "purchase"
          /\ resp'.code = 409
          /\ req'[r] = Idle
          /\ purchases' = purchases
          /\ sales' = sales]_vars

SecondPurchaseRefused ==
  /\ resp.kind = "purchase"
  /\ resp.code = 409
  /\ \E p \in DOMAIN purchases :
       /\ purchases[p].userId = resp.user
       /\ purchases[p].status = "Completed"
       /\ purchases[p].transactionId[1] = "DEMO"
       /\ sales[purchases[p].softwareId] = 1

\* C12 as stated: canDownload is true if and only if the status is Completed, the counter
\* is below maxDownloads and expiresAt is null or later than now
AllowedIffExpiryInFuture ==
  \A p \in DOMAIN purchases :
    CanDownload(purchases[p], now)
      <=> /\ purchases[p].status = "Completed"
          /\ purchases[p].downloadCount < purchases[p].maxDownloads
          /\ (purchases[p].expiresAt = Null \/ purchases[p].expiresAt > now)

\* C12 amended: canDownload is true if and only if the status is Completed, the counter
\* is below maxDownloads and expiresAt is null or not earlier than now; it is false for
\* every other status whatever the counter and the expiry are
AllowedIffNotPastExpiry ==
  \A p \in DOMAIN purchases :
    /\ CanDownload(purchases[p], now)
         <=> /\ purchases[p].status = "Completed"
             /\ purchases[p].downloadCount < purchases[p].maxDownloads
             /\ (purchases[p].expiresAt = Null \/ purchases[p].expiresAt >= now)
    /\ purchases[p].status # "Completed" => ~CanDownload(purchases[p], now)

AcceptedAtExpiryInstant ==
  \E r \in Slots :
    /\ req[r].kind = "download"
    /\ req[r].doc.lastDownload = now
    /\ purchases[req[r].pid].expiresAt = now
    /\ purchases[req[r].pid].status = "Completed"

\* a download request of the buyer of purchase p is taken up in this step
RedeemArrives(p) ==
  \/ /\ req' = req
     /\ resp'.kind = "download"
     /\ resp'.pid = p
     /\ resp'.user = purchases[p].userId
  \/ \E r \in Slots : req[r].kind = "idle" /\ req'[r].kind = "download" /\ req'[r].pid = p

\* C13: a redeem of a purchase that is not Completed is refused with 'Purchase not
\* completed' whatever its counter and expiry are, a redeem of a Completed purchase whose
\* limit is exhausted is refused with 'Download limit exceeded' even when it is expired,
\* a Completed purchase with headroom is refused only as expired, and every refusal
\* leaves the purchase records unchanged
RefusalOrder ==
  [][\A p \in DOMAIN purchases :
       /\ (RedeemArrives(p) /\ purchases[p].status # "Completed")
            => (resp'.code = 400 /\ resp'.msg = "Purchase not completed")
       /\ ( /\ RedeemArrives(p)
            /\ purchases[p].status = "Completed"
            /\ purchases[p].downloadCount >= purchases[p].maxDownloads )
            => (resp'.code = 400 /\ resp'.msg = "Download limit exceeded")
       /\ ( /\ RedeemArrives(p)
            /\ purchases[p].status = "Completed"
            /\ purchases[p].downloadCount < purchases[p].maxDownloads
            /\ resp'.code = 400 )
            => /\ resp'.msg = "Purchase has expired"
               /\ purchases[p].expiresAt # Null
               /\ now > purchases[p].expiresAt
       /\ (resp'.kind = "download" /\ resp'.pid = p /\ resp'.code = 400)
            => purchases' = purchases]_vars

NotCompletedReportedFirst ==
  /\ resp.kind = "download"
  /\ resp.code = 400
  /\ resp.msg = "Purchase not completed"
  /\ resp.pid \in DOMAIN purchases
  /\ purchases[resp.pid].downloadCount >= purchases[resp.pid].maxDownloads
  /\ purchases[resp.pid].expiresAt # Null
  /\ now > purchases[resp.pid].expiresAt

\* the checkout request in slot r reads the product and builds its purchase in this step
CheckoutBuilds(r) == req[r].kind = "idle" /\ req'[r].kind = "checkout"

\* the amount is the price, at time t, of the first tier of the product with the duration
AmountOfTier(doc, t) ==
  LET tiers == Catalogue(t)[doc.productSlug].durations IN
  \E i \in 1..Len(tiers) :
    /\ tiers[i].duration = doc.duration
    /\ \A j \in 1..(i - 1) : tiers[j].duration # doc.duration
    /\ doc.amount = tiers[i].price

\* the checkout request stores the purchase it has built, and no other
StoredAsBuilt ==
  \A p \in DOMAIN purchases' :
    (p \notin DOMAIN purchases /\ purchases'[p].productSlug \in DOMAIN Products)
      => \E r \in Slots : req[r].kind = "checkout" /\ purchases'[p] = req[r].doc

\* C14 as stated: a purchase stored by the checkout request has the price of the chosen
\* duration tier as amount and the product's currency as currency, as they are when the
\* request reads the product
SnapshotOfProductCurrency ==
  [][/\ StoredAsBuilt
     /\ \A r \in Slots :
          CheckoutBuilds(r)
            => /\ AmountOfTier(req'[r].doc, now)
               /\ req'[r].doc.currency = Catalogue(now)[req'[r].doc.productSlug].currency]_vars

\* C14 amended: a purchase stored by the checkout request has the price of the chosen
\* duration tier as amount, and as currency the product's currency, or 'USD' when the
\* product's currency is empty, as they are when the request reads the product
SnapshotWithCurrencyFallback ==
  [][/\ StoredAsBuilt
     /\ \A r \in Slots :
          CheckoutBuilds(r)
            => /\ AmountOfTier(req'[r].doc, now)
               /\ req'[r].doc.currency =
                    IF Catalogue(now)[req'[r].doc.productSlug].currency \in {"", NullS}
                    THEN "USD"
                    ELSE Catalogue(now)[req'[r].doc.productSlug].currency]_vars

FallbackCurrencyStored ==
  \E p \in DOMAIN purchases :
    /\ purchases[p].productSlug = "lite"
    /\ purchases[p].currency = "USD"
    /\ purchases[p].amount = 5
    /\ purchases[p].status = "Pending"

\* C15: no step changes the amount or the currency of a stored purchase, whatever the
\* operation is and whatever the product's price has become
AmountAndCurrencyWriteOnce ==
  [][\A p \in DOMAIN purchases :
       /\ p \in DOMAIN purchases'
       /\ purchases'[p].amount = purchases[p].amount
       /\ purchases'[p].currency = purchases[p].currency]_vars

AmountKeptAfterReprice ==
  \E p \in DOMAIN purchases :
    /\ purchases[p].productSlug = "pro"
    /\ purchases[p].duration = "1day"
    /\ purchases[p].amount = Products["pro"].durations[1].price
    /\ Catalogue(now)["pro"].durations[1].price # purchases[p].amount
    /\ purchases[p].status = "Failed"
    /\ purchases[p].stripeSessionId # Null
    /\ purchases[p].completedAt # Null

\* C16: no step sets a purchase's expiresAt back to null once it is non-null, a replayed
\* completion callback and one handled after the product's role was replaced or removed
\* included
ExpiryNeverCleared ==
  [][\A p \in DOMAIN purchases :
       purchases[p].expiresAt # Null => purchases'[p].expiresAt # Null]_vars

ReplayedAfterRoleRemoved ==
  \E p \in DOMAIN purchases :
    /\ purchases[p].productSlug = "ghost"
    /\ hist[p].handled = 2
    /\ hist[p].acked = 2
    /\ hist[p].granted = 1
    /\ RoleToGrant(purchases[p]) = Null
    /\ purchases[p].expiresAt # Null

\* C17: every entitlement written by the completion handler expires durationDays days
\* after the time it was built when the purchase's durationDays is positive, and never
\* (expiresAt = null) when durationDays is null, zero or negative
EntitlementExpiry ==
  \A u \in DOMAIN userRoles :
    \E p \in DOMAIN purchases :
      /\ userRoles[u].userUid = purchases[p].userId
      /\ userRoles[u].expiresAt =
           IF purchases[p].durationDays # Null /\ purchases[p].durationDays > 0
           THEN userRoles[u].assignedAt + purchases[p].durationDays
           ELSE Null

PermanentForNegativeDays ==
  \E u \in DOMAIN userRoles :
    /\ userRoles[u].expiresAt = Null
    /\ userRoles[u].assignedAt = MaxTime
    /\ purchases[1].durationDays = 0 - 2
    /\ purchases[1].status = "Completed"

\* C18: when the completion handler that granted an entitlement saves the purchase, the
\* stored purchase's expiresAt equals the expiresAt of the entitlement that handler inserted
PurchaseExpiryIsEntitlementExpiry ==
  [][\A r \in Slots :
       CompletedSaveExpiry(r) =>
         /\ req[r].lastId + 1 \in DOMAIN userRoles
         /\ userRoles[req[r].lastId + 1].userUid = purchases[req[r].pid].userId
         /\ userRoles[req[r].lastId + 1].assignedAt = req[r].assignedAt
         /\ purchases'[req[r].pid].expiresAt = userRoles[req[r].lastId + 1].expiresAt]_vars

ExpiryMovedByLaterGrant ==
  /\ DOMAIN userRoles = {1, 2}
  /\ userRoles[1].expiresAt # Null
  /\ userRoles[2].expiresAt # userRoles[1].expiresAt
  /\ purchases[1].expiresAt = userRoles[2].expiresAt
  /\ hist[1].granted = 2
  /\ \A r \in Slots : req[r] = Idle

\* the product of the purchase carries no role at any time
CarriesNoRole(doc) ==
  \A t \in 0..cap.time : ~TruthyN(Catalogue(t)[doc.productSlug].roleId)

\* C19: an entitlement is written only by the completion handler, and when it is written
\* the stored purchase has already been saved as Completed by a completion (it is no
\* longer Pending and carries completedAt, the payment id and the session id); a purchase
\* whose product carries no role gets no entitlement
CompletedBeforeEntitlement ==
  /\ [][/\ userRoles' # userRoles => \E r \in Slots : CompletedRoleInsert(r)
        /\ \A r \in Slots :
             (CompletedRoleInsert(r) /\ userRoles' # userRoles)
               => /\ purchases[req[r].pid].status # "Pending"
                  /\ purchases[req[r].pid].completedAt # Null
                  /\ purchases[req[r].pid].stripePaymentId # Null
                  /\ purchases[req[r].pid].transactionId = << "cs", req[r].ev.sid >>
                  /\ userRoles'[req[r].lastId + 1].userUid = purchases[req[r].pid].userId]_vars
  /\ [](\A p \in DOMAIN purchases :
          /\ purchases[p].status = "Pending" => hist[p].granted = 0
          /\ (purchases[p].productSlug \in DOMAIN Products /\ CarriesNoRole(purchases[p]))
               => hist[p].granted = 0)

RoleGrantedAndNoRoleSkipped ==
  \E p, q \in DOMAIN purchases :
    /\ purchases[p].productSlug = "lite"
    /\ purchases[p].status = "Completed"
    /\ hist[p].acked >= 1
    /\ hist[p].granted = 0
    /\ purchases[q].status = "Completed"
    /\ hist[q].granted = 1
    /\ \E u \in DOMAIN userRoles : userRoles[u].userUid = purchases[q].userId

\* the notes a payment-failed event leaves: the provider's message, or 'Payment failed'
NotesOf(ev) == IF TruthyS(ev.err) THEN ev.err ELSE "Payment failed"

\* C20: when the handler of a payment-failed event has saved, the purchase it found by the
\* stored payment id is stored Failed with the event's message as notes; an event whose
\* payment id no purchase has stored changes no purchase, entitlement or notification
FailureMarksPurchase ==
  [][/\ \A r \in Slots :
          FailedSave(r)
            => /\ req[r].ev.pi = purchases[req[r].pid].stripePaymentId
               /\ purchases'[req[r].pid].status = "Failed"
               /\ purchases'[req[r].pid].notes = NotesOf(req[r].ev)
     /\ ( /\ resp'.kind = "webhook"
          /\ resp'.sig = "valid"
          /\ resp'.ev.type = "failed"
          /\ FindByPaymentId(resp'.ev.pi) = {} )
          => UNCHANGED Ledger]_vars

\* the slug names an active product that has a tier of this name
ActiveTier(slug, duration) ==
  /\ slug \in DOMAIN Products
  /\ Products[slug].active
  /\ \E i \in DOMAIN Products[slug].durations : Products[slug].durations[i].duration = duration

\* the purchases this step stores for a product are of an active product and one of its tiers
StoredForActiveTier ==
  \A p \in DOMAIN purchases' \ DOMAIN purchases :
    purchases'[p].productSlug # NullS
      => ActiveTier(purchases'[p].productSlug, purchases'[p].duration)

\* the step answers a configured checkout request that names a product and a duration
CheckoutAnswered ==
  /\ stripe
  /\ resp'.kind = "checkout"
  /\ resp'.slug \notin {"", NullS}
  /\ resp'.duration \notin {"", NullS}

\* C21 as stated: the checkout request stores a purchase only for an active product and
\* one of its tiers, and a request for anything else is answered 404 and stores nothing
InvalidCheckoutNotFound ==
  [][/\ StoredForActiveTier
     /\ (CheckoutAnswered /\ ~ActiveTier(resp'.slug, resp'.duration))
          => (resp'.code = 404 /\ purchases' = purchases)]_vars

\* C21 amended: the checkout request stores a purchase only for an active product and
\* one of its tiers; a request for a missing or inactive product is answered 404, a request
\* for a tier the product does not have is answered 400, and neither stores anything
InvalidCheckoutRefused ==
  [][/\ StoredForActiveTier
     /\ (CheckoutAnswered /\ ~ActiveTier(resp'.slug, resp'.duration))
          => /\ resp'.code = IF FindActiveProduct(resp'.slug) THEN 400 ELSE 404
             /\ purchases' = purchases]_vars

MissingTierAnswered400 ==
  /\ resp.kind = "checkout"
  /\ resp.slug = "lite"
  /\ resp.duration = "lifetime"
  /\ resp.code = 400
  /\ resp.msg = "Invalid duration"
  /\ \E p \in DOMAIN purchases : purchases[p].productSlug = "lite"

\* C22: when create-checkout-session answers success with a session id, the purchase the
\* request created is stored with that stripeSessionId, and the provider's session carries
\* the purchase's id as client_reference_id and as metadata.purchaseId
SessionIdStoredBeforeAnswer ==
  (resp.kind = "checkout" /\ resp.code = 200)
    => /\ resp.pid \in DOMAIN purchases
       /\ resp.sid \in DOMAIN sessions
       /\ purchases[resp.pid].stripeSessionId = resp.sid
       /\ sessions[resp.sid].ref = IdToString(resp.pid)
       /\ sessions[resp.sid].metaRef = IdToString(resp.pid)
       /\ ParseInt(sessions[resp.sid].ref) = resp.pid

SessionOfSecondPurchaseAnswered ==
  /\ resp.kind = "checkout"
  /\ resp.code = 200
  /\ resp.pid = 2
  /\ resp.sid = 1
  /\ purchases[2].stripeSessionId = 1
  /\ purchases[1].stripeSessionId = Null

\* C23: no purchase is removed, every purchase the store accepts gets an id that no stored
\* purchase has and that is greater than the id of every purchase stored before, and the
\* purchases stored before are left as they are, also when two requests have read the
\* same highest id
PurchaseIdsMonotonic ==
  [][/\ DOMAIN purchases \subseteq DOMAIN purchases'
     /\ \A p \in DOMAIN purchases' \ DOMAIN purchases :
          \A q \in DOMAIN purchases : p > q
     /\ \A r \in Slots :
          ((CheckoutInsert(r) \/ PurchaseInsert(r)) /\ req'[r].pid # Null)
            => /\ req'[r].pid \notin DOMAIN purchases
               /\ req'[r].pid = LastId(purchases')
               /\ purchases'[req'[r].pid] = req[r].doc
               /\ \A q \in DOMAIN purchases : purchases'[q] = purchases[q]]_vars

SameHighestIdRead ==
  /\ DOMAIN purchases = {1}
  /\ resp.code = 500
  /\ resp.kind \in {"checkout", "purchase"}
  /\ \E r \in Slots : req[r].kind \in {"checkout", "purchase"} /\ req[r].pid = 1

\* C25: for every purchase, the number of download requests answered with success is at
\* most maxDownloads
SuccessfulDownloadsWithinLimit ==
  \A p \in DOMAIN purchases : hist[p].redeemed <= purchases[p].maxDownloads

\* the purchase was created through POST /purchases
DirectPurchase(doc) == doc.productSlug = NullS

\* C26: a buyer holds at most one Completed purchase created through POST /purchases for a
\* software
OneCompletedPurchasePerSoftware ==
  \A p, q \in DOMAIN purchases :
    ( /\ DirectPurchase(purchases[p])
      /\ DirectPurchase(purchases[q])
      /\ purchases[p].status = "Completed"
      /\ purchases[q].status = "Completed"
      /\ purchases[p].userId = purchases[q].userId
      /\ purchases[p].softwareId = purchases[q].softwareId )
      => p = q

\* C27: a purchase whose completion callback has never been processed carries no provider
\* payment id, and while it is Pending no step makes it Failed
UnpaidNeverFailed ==
  /\ [](\A p \in DOMAIN purchases :
          hist[p].handled = 0
            => (purchases[p].stripePaymentId = Null /\ purchases[p].status # "Failed"))
  /\ [][\A p \in DOMAIN purchases :
          (purchases[p].status = "Pending" /\ hist[p].handled = 0)
            => purchases'[p].status # "Failed"]_vars

FailureOfUnpaidIgnored ==
  /\ resp.kind = "webhook"
  /\ resp.code = 200
  /\ resp.ev.type = "failed"
  /\ \E p \in DOMAIN purchases :
       /\ purchases[p].status = "Pending"
       /\ hist[p].handled = 0
       /\ purchases[p].stripeSessionId \in DOMAIN sessions
       /\ sessions[purchases[p].stripeSessionId].pi = resp.ev.pi

(***************************************************************************)
(* C24: every entitlement grant, of the completion handler or of a token   *)
(* redemption, adds one new entitlement record and leaves every existing   *)
(* record as it was, also when the buyer already holds an assignment of    *)
(* the same role; no step changes or removes an existing record.           *)
(***************************************************************************)
GrantSaved(r) ==
  \/ At(r, "webhook", "role_insert") /\ req'[r].pc = "save_expiry"
  \/ At(r, "tokens", "grant_insert") /\ req'[r].pc = "notify_lastid"

EntitlementsOnlyAdded ==
  /\ \A id \in DOMAIN userRoles : id \in DOMAIN userRoles' /\ userRoles'[id] = userRoles[id]
  /\ Cardinality(DOMAIN userRoles') =
       Cardinality(DOMAIN userRoles) + (IF \E r \in Slots : GrantSaved(r) THEN 1 ELSE 0)

EntitlementsAppendOnly == [][EntitlementsOnlyAdded]_vars

\* the buyer holds two assignments of one reward role beside the role of the product
SameRoleHeldTwice ==
  \E a \in DOMAIN userRoles, b \in DOMAIN userRoles, c \in DOMAIN userRoles :
    /\ a # b
    /\ userRoles[a].userUid = userRoles[b].userUid
    /\ userRoles[a].roleId = userRoles[b].roleId
    /\ userRoles[a].roleId \notin Roles
    /\ userRoles[c].userUid = userRoles[a].userUid
    /\ userRoles[c].roleId \in Roles

(***************************************************************************)
(* C29: every stored token wallet has balance = totalEarned - totalSpent   *)
(* and a balance that is not negative, the wallets being changed only by   *)
(* addTokens (claim-daily) and spendTokens (redeem).                       *)
(***************************************************************************)
WalletBalanced ==
  \A user \in DOMAIN wallets :
    /\ wallets[user].balance = wallets[user].totalEarned - wallets[user].totalSpent
    /\ wallets[user].balance >= 0


(***************************************************************************)
(* C30: a token redemption of an access reward is all-or-nothing.  While   *)
(* no redemption of a user is in flight, the wallet records as many spends *)
(* of an access reward as the user has entitlements of reward roles, each  *)
(* expiring 7 days after it was assigned; and a redemption that answers    *)
(* anything but success has not saved a reduced wallet balance.            *)
(***************************************************************************)
AccessRewards == {id \in DOMAIN Redemptions : Redemptions[id].type = "access"}

AccessSpends(user) ==
  {i \in DOMAIN wallets[user].transactions :
     /\ wallets[user].transactions[i].type = "spend"
     /\ \E id \in AccessRewards :
          wallets[user].transactions[i].amount = Redemptions[id].cost}

RewardEntitlements(user) ==
  {id \in DOMAIN userRoles :
     /\ userRoles[id].userUid = user
     /\ \E rid \in AccessRewards :
          roles[userRoles[id].roleId].slug = Redemptions[rid].roleSlug}

Redeeming(user) == \E r \in Slots : req[r].kind = "tokens" /\ req[r].user = user

SpentAndGranted ==
  \A user \in DOMAIN wallets :
    ~Redeeming(user) =>
      /\ Cardinality(AccessSpends(user)) = Cardinality(RewardEntitlements(user))
      /\ \A id \in RewardEntitlements(user) :
           userRoles[id].expiresAt = userRoles[id].assignedAt + 7

FailedRedemptionUnpaid ==
  \A r \in Slots :
    (req[r].kind = "tokens" /\ req'[r] = Idle /\ resp'.code # 200) => req[r].paid = 0

RedemptionAllOrNothing == []SpentAndGranted /\ [][FailedRedemptionUnpaid]_vars


(***************************************************************************)
(* C28: for every invitation code, currentUses <= maxUses and the number   *)
(* of registrations accepted with the code is at most maxUses, also when   *)
(* registrations with the same code are interleaved.                       *)
(***************************************************************************)
CodeUsesWithinLimit ==
  \A c \in DOMAIN codes :
    /\ codes[c].currentUses <= codes[c].maxUses
    /\ accepted[c] <= codes[c].maxUses

====
